---- MODULE Spec2Model ----
(***************************************************************************)
(* A model of datalab.stackdriver.monitoring: the time-series table        *)
(* builder (_build_dataframe) and the column-header projector              *)
(* (extract_levels, extract_single_level) of _dataframe.py, against        *)
(* pandas 0.18 and gcloud.monitoring as the code calls them.               *)
(*                                                                         *)
(* A Python string is the sequence of its character codes, so that         *)
(* sorting, joining and comparing strings is computed and not assumed.     *)
(* A pandas DataFrame is a record                                          *)
(*    [names   : the column index's level names (<<None>> when unnamed),   *)
(*     columns : the columns in order, each [key, id, cells],              *)
(*     index   : the row timestamps in order]                              *)
(* where key is the tuple of header values of the column, cells maps the   *)
(* timestamps at which the column has a value to that value (a timestamp   *)
(* of the index outside DOMAIN cells is a NaN cell), and id is the         *)
(* position of the time series the column was built from: it is not part   *)
(* of pandas' data and only lets a column be followed through a re-sort.   *)
(***************************************************************************)
EXTENDS Integers, Sequences, FiniteSets, TLC

VARIABLES
  series,    \* the time series the query iterable yields, in order
  consumed,  \* how many of them the last _build_dataframe call iterated over
  call,      \* the most recent call: function, arguments, input table, outcome
  qr         \* the QueryResults object the calls of _query_results.py are made on

vars == <<series, consumed, call, qr>>

----------------------------------------------------------------------------
(* Bounds of the model. *)

MaxSeries == 2      \* series per query result
MaxLevels == 2      \* names in a "labels" argument that the caller writes out
MaxRows == 3        \* rows of the table of a QueryResults object
MaxPeriods == 4     \* periods that one call of timesplit walks through

----------------------------------------------------------------------------
(* Python values. *)

\* Python's None where a string is expected: no string has a negative code.
None == << -1 >>

\* An optional argument: NoArg is "not passed" (None), Arg(v) a passed value.
NoArg == [given |-> FALSE, val |-> <<>>]
Arg(v) == [given |-> TRUE, val |-> v]

\* The string literals of the program and of the inputs.
metric_type   == <<109, 101, 116, 114, 105, 99, 95, 116, 121, 112, 101>>
metric_kind   == <<109, 101, 116, 114, 105, 99, 95, 107, 105, 110, 100>>
resource_type == <<114, 101, 115, 111, 117, 114, 99, 101, 95, 116, 121, 112, 101>>
project_id    == <<112, 114, 111, 106, 101, 99, 116, 95, 105, 100>>
aws_account   == <<97, 119, 115, 95, 97, 99, 99, 111, 117, 110, 116>>
location      == <<108, 111, 99, 97, 116, 105, 111, 110>>
region        == <<114, 101, 103, 105, 111, 110>>
zone          == <<122, 111, 110, 101>>
instance_id   == <<105, 110, 115, 116, 97, 110, 99, 101, 95, 105, 100>>
code          == <<99, 111, 100, 101>>
EmptyString   == <<>>
CommaSpace    == <<44, 32>>                  \* ', '
str_a         == <<97>>                      \* 'a'
str_a_bang    == <<97, 33>>                  \* 'a!'
str_b         == <<98>>                      \* 'b'
str_m         == <<109>>                     \* 'm', a metric type
str_GAUGE     == <<71, 65, 85, 71, 69>>      \* 'GAUGE', a metric kind
str_gce       == <<103, 99, 101>>            \* 'gce', a resource type

\* The string literals of _query_results.py.
str ==
  [
    H         |-> <<72>>,                                     \* 'H'
    D         |-> <<68>>,                                     \* 'D'
    W         |-> <<87>>,                                     \* 'W'
    M         |-> <<77>>,                                     \* 'M'
    Q         |-> <<81>>,                                     \* 'Q'
    A         |-> <<65>>,                                     \* 'A'
    MS        |-> <<77, 83>>,                                 \* 'MS'
    QS        |-> <<81, 83>>,                                 \* 'QS'
    AS        |-> <<65, 83>>,                                 \* 'AS'
    hour      |-> <<104, 111, 117, 114>>,                     \* 'hour'
    day       |-> <<100, 97, 121>>,                           \* 'day'
    week      |-> <<119, 101, 101, 107>>,                     \* 'week'
    month     |-> <<109, 111, 110, 116, 104>>,                \* 'month'
    quarter   |-> <<113, 117, 97, 114, 116, 101, 114>>,       \* 'quarter'
    year      |-> <<121, 101, 97, 114>>,                      \* 'year'
    Latest    |-> <<76, 97, 116, 101, 115, 116, 32>>,         \* 'Latest '
    s         |-> <<115>>,                                    \* 's'
    space     |-> <<32>>,                                     \* ' '
    ago       |-> <<32, 97, 103, 111>>,                       \* ' ago'
    Avg       |-> <<65, 118, 103, 32, 111, 102, 32, 112, 114, 101, 118, 105, 111, 117, 115, 32>>,  \* 'Avg of previous '
    intervals |-> <<32, 105, 110, 116, 101, 114, 118, 97, 108, 115>>,  \* ' intervals'
    plus      |-> <<43>>,                                     \* '+'
    minus     |-> <<45>>,                                     \* '-'
    star      |-> <<42>>,                                     \* '*'
    open      |-> <<40>>,                                     \* '('
    close     |-> <<41>>,                                     \* ')'
    abs       |-> <<97, 98, 115>>,                            \* 'abs'
    floor     |-> <<102, 108, 111, 111, 114>>,                \* 'floor'
    ceil      |-> <<99, 101, 105, 108>>,                      \* 'ceil'
    round     |-> <<114, 111, 117, 110, 100>> ]               \* 'round'

\* s < t for Python strings: lexicographic by character code.
RECURSIVE StrLess(_, _)
StrLess(s, t) ==
  IF t = <<>> THEN FALSE
  ELSE IF s = <<>> THEN TRUE
  ELSE IF Head(s) # Head(t) THEN Head(s) < Head(t)
  ELSE StrLess(Tail(s), Tail(t))

\* k < l for column keys: tuples of strings compared left to right.
RECURSIVE KeyLess(_, _)
KeyLess(k, l) ==
  IF l = <<>> THEN FALSE
  ELSE IF k = <<>> THEN TRUE
  ELSE IF Head(k) # Head(l) THEN StrLess(Head(k), Head(l))
  ELSE KeyLess(Tail(k), Tail(l))

KeyLeq(k, l) == k = l \/ KeyLess(k, l)

\* sorted(S) for a set of strings.
RECURSIVE Sorted(_)
Sorted(S) ==
  IF S = {} THEN <<>>
  ELSE LET least == CHOOSE s \in S : \A t \in S \ {s} : StrLess(s, t)
       IN  <<least>> \o Sorted(S \ {least})

\* sep.join(parts)
RECURSIVE Join(_, _)
Join(sep, parts) ==
  IF parts = <<>> THEN <<>>
  ELSE IF Len(parts) = 1 THEN parts[1]
  ELSE parts[1] \o sep \o Join(sep, Tail(parts))

Range(f) == {f[x] : x \in DOMAIN f}

\* The elements of seq that are in S, in the order of seq.
RECURSIVE SelectIn(_, _)
SelectIn(seq, S) ==
  IF seq = <<>> THEN <<>>
  ELSE (IF Head(seq) \in S THEN <<Head(seq)>> ELSE <<>>) \o SelectIn(Tail(seq), S)

\* The timestamps of a set in increasing order.
RECURSIVE SortedTimes(_)
SortedTimes(S) ==
  IF S = {} THEN <<>>
  ELSE LET least == CHOOSE s \in S : \A t \in S : s <= t
       IN  <<least>> \o SortedTimes(S \ {least})

----------------------------------------------------------------------------
(* pandas: DataFrame.sort_index(axis=1), a stable sort of the columns by key. *)

RECURSIVE InsertColumn(_, _)
InsertColumn(c, cols) ==
  IF cols = <<>> THEN <<c>>
  ELSE IF KeyLess(c.key, Head(cols).key) THEN <<c>> \o cols
  ELSE <<Head(cols)>> \o InsertColumn(c, Tail(cols))

RECURSIVE SortColumns(_)
SortColumns(cols) ==
  IF cols = <<>> THEN <<>>
  ELSE InsertColumn(cols[Len(cols)], SortColumns(SubSeq(cols, 1, Len(cols) - 1)))

ColumnsSorted(cols) ==
  \A i \in 1..(Len(cols) - 1) : KeyLeq(cols[i].key, cols[i + 1].key)

----------------------------------------------------------------------------
(* gcloud.monitoring, as _build_dataframe uses it. *)

\* TimeSeries.labels: 'resource_type', the resource labels and the metric
\* labels in one dictionary, a later entry replacing an earlier one.
Labels(timeseries) ==
  LET r == timeseries.resource.labels
      m == timeseries.metric.labels
  IN  [k \in {resource_type} \cup DOMAIN r \cup DOMAIN m |->
         IF k \in DOMAIN m THEN m[k]
         ELSE IF k \in DOMAIN r THEN r[k]
         ELSE timeseries.resource.type]

\* gcloud.monitoring._dataframe.TOP_RESOURCE_LABELS
TOP_RESOURCE_LABELS == <<project_id, aws_account, location, region, zone>>

\* gcloud.monitoring._dataframe._sorted_resource_labels: the well-known
\* resource labels first, in their fixed order, then the others sorted.
SortedResourceLabels(labels) ==
  SelectIn(TOP_RESOURCE_LABELS, labels) \o Sorted(labels \ Range(TOP_RESOURCE_LABELS))

----------------------------------------------------------------------------
(* _dataframe.py: _get_timeseries_label *)

\* Variant: labels.get(key) with no default, so an absent key gives None.
GetTimeseriesLabelNoDefault(timeseries, key) ==
  IF key = metric_type THEN timeseries.metric.type
  ELSE IF key = metric_kind THEN timeseries.metric_kind
  ELSE IF key \in DOMAIN Labels(timeseries) THEN Labels(timeseries)[key]
  ELSE None

GetTimeseriesLabel(timeseries, key) ==
  IF key = metric_type THEN timeseries.metric.type
  ELSE IF key = metric_kind THEN timeseries.metric_kind
  ELSE IF key \in DOMAIN Labels(timeseries) THEN Labels(timeseries)[key]
  ELSE EmptyString

----------------------------------------------------------------------------
(* _dataframe.py: _build_dataframe *)

\* What a call comes to: the exception it raises ("none" when it returns)
\* and the returned table (<<>> when it raises).
Raises(exception) == [raised |-> exception, ret |-> <<>>]
Returns(table) == [raised |-> "none", ret |-> <<table>>]

\* Lines 60-68: the level list when neither label nor labels is given.
DefaultLabels(headers) ==
  LET resource_labels == UNION {DOMAIN headers[i].resource.labels : i \in DOMAIN headers}
      metric_labels == UNION {DOMAIN headers[i].metric.labels : i \in DOMAIN headers}
  IN  <<metric_type, metric_kind, resource_type>>
        \o SortedResourceLabels(resource_labels)
        \o Sorted(metric_labels)

\* Line 79: "labels or [label]", after the default has been filled in.
BuildLevels(headers, label, labels) ==
  IF ~label.given /\ ~labels.given THEN DefaultLabels(headers)
  ELSE IF labels.given /\ labels.val # <<>> THEN labels.val
  ELSE <<label.val>>

\* Line 88: names=labels or None.
BuildNames(headers, label, labels) ==
  IF ~label.given /\ ~labels.given THEN DefaultLabels(headers)
  ELSE IF labels.given /\ labels.val # <<>> THEN labels.val
  ELSE <<None>>

\* Lines 52-58 and 71-74: one column per series, its cells at the end times
\* of its points; the row index is the union of the end times.
PointCells(timeseries) ==
  [t \in {timeseries.points[p].end_time : p \in DOMAIN timeseries.points} |->
     (CHOOSE pt \in Range(timeseries.points) : pt.end_time = t).value]

BuildColumn(headers, i, levels) ==
  [key   |-> [j \in DOMAIN levels |-> GetTimeseriesLabel(headers[i], levels[j])],
   id    |-> i,
   cells |-> PointCells(headers[i])]

BuildTable(time_series, label, labels) ==
  LET levels == BuildLevels(time_series, label, labels)
      columns == [i \in DOMAIN time_series |-> BuildColumn(time_series, i, levels)]
  IN  [names   |-> BuildNames(time_series, label, labels),
       index   |-> SortedTimes(UNION {DOMAIN columns[i].cells : i \in DOMAIN columns}),
       columns |-> SortColumns(columns)]

\* Variant: only the empty list is rejected, not label together with labels.
BuildArgumentErrorEmptyOnly(label, labels) ==
  labels.given /\ labels.val = <<>>

\* The argument check of lines 44-48 comes before the loop over the series.
BuildArgumentError(label, labels) ==
  labels.given /\ (label.given \/ labels.val = <<>>)

BuildOutcome(time_series, label, labels) ==
  IF BuildArgumentError(label, labels) THEN Raises("ValueError")
  ELSE Returns(BuildTable(time_series, label, labels))

\* Variant: the arguments are checked after the loop over the series.
BuildConsumedCheckAfterLoop(time_series, label, labels) ==
  Len(time_series)

BuildConsumed(time_series, label, labels) ==
  IF BuildArgumentError(label, labels) THEN 0 ELSE Len(time_series)

----------------------------------------------------------------------------
(* _dataframe.py: extract_levels and extract_single_level *)

Count(seq, x) == Cardinality({i \in DOMAIN seq : seq[i] = x})

HasDuplicates(seq) == \E i, j \in DOMAIN seq : i # j /\ seq[i] = seq[j]

\* The position of level name in names, which holds it.
LevelNumber(names, name) == CHOOSE i \in DOMAIN names : names[i] = name

\* pandas: Index.get_level_values(name) raises KeyError unless exactly one
\* level of the index has that name.
LevelFound(names, name) == Count(names, name) = 1

\* Line 165: the columns keyed by the values of one level.
SingleLevelTable(dataframe, name) ==
  [names   |-> <<name>>,
   index   |-> dataframe.index,
   columns |-> [i \in DOMAIN dataframe.columns |->
                  [dataframe.columns[i] EXCEPT
                     !.key = <<@[LevelNumber(dataframe.names, name)]>>]]]

\* Lines 169-173: the headers as a table with one column per level name,
\* reindexed to the requested names, a name it lacks giving a column of
\* NaN that fillna('') turns into empty strings.
ReindexedKey(names, key, labels) ==
  [j \in DOMAIN labels |->
     IF \E i \in DOMAIN names : names[i] = labels[j]
     THEN key[LevelNumber(names, labels[j])]
     ELSE EmptyString]

MultiLevelTable(dataframe, labels) ==
  [names   |-> labels,
   index   |-> dataframe.index,
   columns |-> [i \in DOMAIN dataframe.columns |->
                  [dataframe.columns[i] EXCEPT
                     !.key = ReindexedKey(dataframe.names, @, labels)]]]

\* Line 175: sort_index(axis=1).
SortIndexColumns(dataframe) ==
  [dataframe EXCEPT !.columns = SortColumns(@)]

\* Line 155: labels = [label] if label is not None else labels.
RequestedLabels(label, labels) ==
  IF label.given THEN Arg(<<label.val>>) ELSE labels

\* Variant: only labels=None is taken as nothing to do.
NothingToDoOnlyNone(dataframe, requested) ==
  ~requested.given

\* Line 160: nothing needs to be done.
NothingToDo(dataframe, requested) ==
  ~requested.given \/ requested.val = dataframe.names

ExtractLevelsOutcome(dataframe, label, labels) ==
  LET requested == RequestedLabels(label, labels)
  IN  IF label.given /\ labels.given THEN Raises("ValueError")
      ELSE IF NothingToDo(dataframe, requested) THEN Returns(dataframe)
      ELSE IF Len(requested.val) = 1
        THEN IF LevelFound(dataframe.names, requested.val[1])
             THEN Returns(SortIndexColumns(
                            SingleLevelTable(dataframe, requested.val[1])))
             ELSE Raises("KeyError")
      \* pandas: reindex refuses an axis with duplicate labels, and
      \* MultiIndex.from_arrays refuses an empty list of arrays.
      ELSE IF HasDuplicates(dataframe.names) /\ requested.val # <<>>
        THEN Raises("ValueError")
      ELSE IF requested.val = <<>> THEN Raises("ValueError")
      ELSE Returns(SortIndexColumns(MultiLevelTable(dataframe, requested.val)))

\* Variant: the parts are joined in reverse order.
JoinedTableReversed(df_single) ==
  IF Len(df_single.names) > 1
  THEN [names   |-> <<None>>,
        index   |-> df_single.index,
        columns |-> [i \in DOMAIN df_single.columns |->
                       [df_single.columns[i] EXCEPT
                          !.key = <<Join(CommaSpace,
                                         [j \in DOMAIN @ |-> @[Len(@) + 1 - j]])>>]]]
  ELSE df_single

\* Lines 126-128: a header of two or more levels is joined with ', '.
JoinedTable(df_single) ==
  IF Len(df_single.names) > 1
  THEN [names   |-> <<None>>,
        index   |-> df_single.index,
        columns |-> [i \in DOMAIN df_single.columns |->
                       [df_single.columns[i] EXCEPT
                          !.key = <<Join(CommaSpace, @)>>]]]
  ELSE df_single

ExtractSingleLevelOutcome(dataframe, label, labels) ==
  LET out == ExtractLevelsOutcome(dataframe, label, labels)
  IN  IF out.raised # "none" THEN out
      ELSE Returns(JoinedTable(out.ret[1]))

----------------------------------------------------------------------------
(* Time, as _query_results.py uses it through pandas.Timestamp: a timestamp *)
(* is the number of minutes since 2013-01-01 00:00, a Tuesday.             *)

IsLeap(year) == year % 4 = 0                 \* for the years 1901 to 2099

DaysInYear(year) == IF IsLeap(year) THEN 366 ELSE 365

DaysInMonth(year, month) ==
  IF month = 2 THEN (IF IsLeap(year) THEN 29 ELSE 28)
  ELSE IF month \in {4, 6, 9, 11} THEN 30
  ELSE 31

RECURSIVE DaysBeforeYear(_)
DaysBeforeYear(year) ==
  IF year <= 2013 THEN 0 ELSE DaysBeforeYear(year - 1) + DaysInYear(year - 1)

RECURSIVE DaysBeforeMonth(_, _)
DaysBeforeMonth(year, month) ==
  IF month <= 1 THEN 0
  ELSE DaysBeforeMonth(year, month - 1) + DaysInMonth(year, month - 1)

\* pandas.Timestamp(year, month, day, hour, minute)
Timestamp(year, month, day, hour, minute) ==
  ((DaysBeforeYear(year) + DaysBeforeMonth(year, month) + day - 1) * 24 + hour) * 60
    + minute

RECURSIVE YearOfDay(_, _)
YearOfDay(year, days) ==
  IF days < DaysInYear(year) THEN [year |-> year, days |-> days]
  ELSE YearOfDay(year + 1, days - DaysInYear(year))

RECURSIVE MonthOfDay(_, _, _)
MonthOfDay(year, month, days) ==
  IF days < DaysInMonth(year, month) THEN [month |-> month, days |-> days]
  ELSE MonthOfDay(year, month + 1, days - DaysInMonth(year, month))

\* The fields of a timestamp: year, month, day, hour, minute.
Fields(t) ==
  LET y == YearOfDay(2013, t \div 1440)
      m == MonthOfDay(y.year, 1, y.days)
  IN  [year |-> y.year, month |-> m.month, day |-> m.days + 1,
       hour |-> (t \div 60) % 24, minute |-> t % 60]

\* datetime.weekday(): Monday is 0 and Sunday is 6.
Weekday(t) == ((t \div 1440) + 1) % 7

\* Timestamp.replace(minute=0, second=0, microsecond=0)
ReplaceMinute(t) == t - (t % 60)

\* Timestamp.replace(hour=0)
ReplaceHour(t) == t - ((t \div 60) % 24) * 60

\* The time of day of a timestamp, which the calendar offsets keep.
TimeOfDay(t) == t % 1440

\* dateutil: t + relativedelta(months=months, day=day): the month is moved,
\* and the day is set to day or to the last day of the month if that is less.
AddMonthsDay(t, months, day) ==
  LET f == Fields(t)
      number == f.year * 12 + (f.month - 1) + months
      year == number \div 12
      month == (number % 12) + 1
      last == DaysInMonth(year, month)
  IN  Timestamp(year, month, IF day < last THEN day ELSE last, 0, 0) + TimeOfDay(t)

----------------------------------------------------------------------------
(* _query_results.py: QueryResults.timesplit, the frequency string *)

\* str.upper(), for ASCII strings.
Upper(string) ==
  [i \in DOMAIN string |->
     IF string[i] >= 97 /\ string[i] <= 122 THEN string[i] - 32 ELSE string[i]]

IsDigit(c) == c >= 48 /\ c <= 57

\* The length of the longest run of digits that string begins with: the
\* part the group (\d*) of the pattern takes.
RECURSIVE DigitsLength(_)
DigitsLength(string) ==
  IF string = <<>> \/ ~IsDigit(Head(string)) THEN 0
  ELSE 1 + DigitsLength(Tail(string))

\* int(digits), for a string of digits.
RECURSIVE IntOf(_)
IntOf(digits) ==
  IF digits = <<>> THEN 0
  ELSE IntOf(SubSeq(digits, 1, Len(digits) - 1)) * 10 + (digits[Len(digits)] - 48)

\* '%d' % number, for a number that is not negative.
RECURSIVE Decimal(_)
Decimal(number) ==
  IF number < 10 THEN <<48 + number>>
  ELSE Decimal(number \div 10) \o <<48 + (number % 10)>>

\* Line 235: freq_to_full
\* by the code of the letter: H, D, W, M, Q, A.
freq_to_full ==
  (72 :> str.hour) @@ (68 :> str.day) @@ (87 :> str.week) @@ (77 :> str.month)
    @@ (81 :> str.quarter) @@ (65 :> str.year)

\* Line 237: re.match(r'(\d*)(H|D|W|M|Q|A)$', freq), the two groups of the
\* match or <<>> when there is none; '$' is the end of the string or the
\* place before a newline that ends it.
RegexMatch(freq) ==
  LET d == DigitsLength(freq)
      rest == SubSeq(freq, d + 1, Len(freq))
  IN  IF /\ rest # <<>>
         /\ rest[1] \in DOMAIN freq_to_full
         /\ (Len(rest) = 1 \/ (Len(rest) = 2 /\ rest[2] = 10))
      THEN <<SubSeq(freq, 1, d), <<rest[1]>>>>
      ELSE <<>>

\* Line 240
FreqCount(regex_match) ==
  IF regex_match[1] = <<>> THEN 1 ELSE IntOf(regex_match[1])

\* Line 241
FreqName(regex_match) == freq_to_full[regex_match[2][1]]

\* Line 243: 'M', 'Q' and 'A' alone become 'MS', 'QS' and 'AS'.
OffsetAlias(freq) ==
  IF freq \in {str.M, str.Q, str.A} THEN freq \o <<83>> ELSE freq

\* Line 244: pandas.tseries.frequencies.to_offset, for a string of digits
\* followed by an offset alias: the offset [rule, n] of that alias taken n
\* times, once when there are no digits.  'H' is Hour, 'D' is Day, 'W' is
\* Week(weekday=6), 'MS' MonthBegin, 'QS' QuarterBegin(startingMonth=1),
\* 'AS' YearBegin(month=1), 'M' MonthEnd, 'Q' QuarterEnd(startingMonth=12)
\* and 'A' YearEnd(month=12).
to_offset(freq) ==
  LET d == DigitsLength(freq)
  IN  [rule |-> SubSeq(freq, d + 1, Len(freq)),
       n    |-> IF d = 0 THEN 1 ELSE IntOf(SubSeq(freq, 1, d))]

----------------------------------------------------------------------------
(* pandas.tseries.offsets, as timesplit uses them: timestamp + offset for  *)
(* an offset [rule, n]; n is 0 in "0*offset" and negative in "-= offset".  *)
(* Every offset keeps the time of day.                                     *)

\* Hour and Day are fixed spans of time.
TickApply(minutes, n, t) == t + n * minutes

\* Week(weekday=6): to a Sunday.  Off a Sunday the first step forward only
\* reaches the next Sunday, and a step back starts from the next Sunday.
WeekApply(n, t) ==
  LET ahead == (6 - Weekday(t)) % 7
  IN  IF n > 0
      THEN IF ahead # 0 THEN t + (ahead + 7 * (n - 1)) * 1440
           ELSE t + (7 * n) * 1440
      ELSE t + (ahead + 7 * n) * 1440

\* MonthBegin
MonthBeginApply(n, t) ==
  AddMonthsDay(t, IF Fields(t).day > 1 /\ n <= 0 THEN n + 1 ELSE n, 1)

\* MonthEnd
MonthEndApply(n, t) ==
  LET f == Fields(t)
  IN  IF f.day # DaysInMonth(f.year, f.month)
      THEN AddMonthsDay(AddMonthsDay(t, -1, 31), IF n <= 0 THEN n + 1 ELSE n, 31)
      ELSE AddMonthsDay(t, n, 31)

\* QuarterBegin(startingMonth=1)
QuarterBeginApply(n, t) ==
  LET f == Fields(t)
      since == (f.month - 1) % 3
      monthsSince == IF n <= 0 /\ since # 0 THEN since - 3 ELSE since
      periods == IF n <= 0 /\ monthsSince = 0 /\ f.day > 1 THEN n + 1 ELSE n
  IN  AddMonthsDay(t, 3 * periods - monthsSince, 1)

\* QuarterEnd(startingMonth=12)
QuarterEndApply(n, t) ==
  LET f == Fields(t)
      togo == 3 - ((f.month - 12) % 3)
      monthsToGo == IF togo = 3 THEN 0 ELSE togo
      periods == IF n > 0 /\ ~(f.day >= DaysInMonth(f.year, f.month) /\ monthsToGo = 0)
                 THEN n - 1 ELSE n
  IN  AddMonthsDay(t, monthsToGo + 3 * periods, 31)

\* YearBegin(month=1)
YearBeginApply(n, t) ==
  LET f == Fields(t)
      first == f.month = 1 /\ f.day = 1
      year == IF n > 0 THEN f.year + n
              ELSE IF n < 0 THEN f.year + n + (IF first THEN 0 ELSE 1)
              ELSE IF first THEN f.year ELSE f.year + 1
  IN  Timestamp(year, 1, 1, 0, 0) + TimeOfDay(t)

\* YearEnd(month=12)
YearEndApply(n, t) ==
  LET f == Fields(t)
      last == f.month = 12 /\ f.day = 31
      year == IF n > 0 THEN f.year + n - (IF last THEN 0 ELSE 1)
              ELSE IF n < 0 THEN f.year + n
              ELSE f.year
  IN  Timestamp(year, 12, 31, 0, 0) + TimeOfDay(t)

OffsetApply(offset, t) ==
  IF offset.rule = str.H THEN TickApply(60, offset.n, t)
  ELSE IF offset.rule = str.D THEN TickApply(1440, offset.n, t)
  ELSE IF offset.rule = str.W THEN WeekApply(offset.n, t)
  ELSE IF offset.rule = str.MS THEN MonthBeginApply(offset.n, t)
  ELSE IF offset.rule = str.QS THEN QuarterBeginApply(offset.n, t)
  ELSE IF offset.rule = str.AS THEN YearBeginApply(offset.n, t)
  ELSE IF offset.rule = str.M THEN MonthEndApply(offset.n, t)
  ELSE IF offset.rule = str.Q THEN QuarterEndApply(offset.n, t)
  ELSE YearEndApply(offset.n, t)

----------------------------------------------------------------------------
(* _query_results.py: QueryResults and QueryResults.timesplit *)

\* Lines 33-35: QueryResults(dataframe, metric_type)
QueryResults(dataframe, type) ==
  [_dataframe |-> dataframe, metric_type |-> type]

\* A table counted as empty by its rows alone.
EmptyRowsOnly(self) == self._dataframe.index = <<>>

\* Lines 41-44: pandas' DataFrame.empty, no row or no column.
Empty(self) == self._dataframe.index = <<>> \/ self._dataframe.columns = <<>>

\* The cells of a column at the timestamps of rows.
CellsAt(cells, rows) == [t \in DOMAIN cells \cap rows |-> cells[t]]

\* A slice that takes the row at new_start_time too.
SliceInclusive(dataframe, start_time, new_start_time) ==
  LET rows == {t \in Range(dataframe.index) : start_time <= t /\ t <= new_start_time}
  IN  [dataframe EXCEPT
         !.index = SelectIn(@, rows),
         !.columns = [i \in DOMAIN @ |-> [@[i] EXCEPT !.cells = CellsAt(@, rows)]]]

\* Lines 264-265: dataframe[start_time:end_time], the rows from start_time
\* to end_time, both included; end_time is one nanosecond before
\* new_start_time, so these are the rows before new_start_time.
Slice(dataframe, start_time, new_start_time) ==
  LET rows == {t \in Range(dataframe.index) : start_time <= t /\ t < new_start_time}
  IN  [dataframe EXCEPT
         !.index = SelectIn(@, rows),
         !.columns = [i \in DOMAIN @ |-> [@[i] EXCEPT !.cells = CellsAt(@, rows)]]]

\* Line 276: DataFrame.tshift(freq=delta), every row moved by delta.
Tshift(dataframe, delta) ==
  [dataframe EXCEPT
     !.index = [i \in DOMAIN @ |-> @[i] + delta],
     !.columns = [i \in DOMAIN @ |->
                    [@[i] EXCEPT !.cells = [t \in {u + delta : u \in DOMAIN @} |->
                                              @[t - delta]]]]]

\* The start of the first period with the hour of the first row kept.
FirstStartTimeKeepHour(dataframe, freq, offset) ==
  LET first_start_time == ReplaceMinute(dataframe.index[1])
  IN  IF first_start_time # OffsetApply([offset EXCEPT !.n = 0], first_start_time)
      THEN OffsetApply([offset EXCEPT !.n = 0 - @], first_start_time)
      ELSE first_start_time

\* Lines 249-256: the start of the first period.
FirstStartTime(dataframe, freq, offset) ==
  LET truncated == ReplaceMinute(dataframe.index[1])
      first_start_time == IF freq # str.H THEN ReplaceHour(truncated) ELSE truncated
  IN  IF first_start_time # OffsetApply([offset EXCEPT !.n = 0], first_start_time)
      THEN OffsetApply([offset EXCEPT !.n = 0 - @], first_start_time)
      ELSE first_start_time

\* Python evaluates the right-hand side of an assignment once and binds
\* the name to the value: Body of the value of an expression.
Once(value, Body(_)) == CHOOSE result \in {Body(v) : v \in {value}} : TRUE

\* Lines 261-263: the values start_time takes in the loop, for an offset
\* that moves forward.
RECURSIVE StartTimes(_, _, _)
StartTimes(new_start_time, last, offset) ==
  IF new_start_time <= last
  THEN Once(OffsetApply(offset, new_start_time),
            LAMBDA next : <<new_start_time>> \o StartTimes(next, last, offset))
  ELSE <<>>

\* Lines 261-266: the periods of the loop and the rows of each.
SplitDataframes(dataframe, freq, offset) ==
  Once(FirstStartTime(dataframe, freq, offset), LAMBDA first_start_time :
    Once(StartTimes(first_start_time, dataframe.index[Len(dataframe.index)], offset),
         LAMBDA starts :
      [i \in DOMAIN starts |->
         Once(OffsetApply(offset, starts[i]), LAMBDA new_start_time :
           [start_time |-> starts[i],
            new_start_time |-> new_start_time,
            df |-> Slice(dataframe, starts[i], new_start_time)])]))

\* Every period is kept.
DropLastNever(split_dataframes, min_points) == split_dataframes

\* Lines 268-269: the last period is dropped when it has too few rows.
DropLast(split_dataframes, min_points) ==
  IF Len(split_dataframes[Len(split_dataframes)].df.index) < min_points
  THEN SubSeq(split_dataframes, 1, Len(split_dataframes) - 1)
  ELSE split_dataframes

\* Lines 273-276: index[0] of a table with no row raises IndexError.
ShiftRaises(split_dataframes) ==
  \E i \in DOMAIN split_dataframes : split_dataframes[i].df.index = <<>>

\* Lines 273-276: every table but the last is moved by the time from its
\* first row to the first row of the last.
ShiftDataframes(split_dataframes) ==
  LET last_start_time == split_dataframes[Len(split_dataframes)].df.index[1]
  IN  [i \in DOMAIN split_dataframes |->
         IF i = Len(split_dataframes) THEN split_dataframes[i].df
         ELSE Tshift(split_dataframes[i].df,
                     last_start_time - split_dataframes[i].df.index[1])]

\* The first label with the count in it whatever the count.
FirstMetricTypeAlwaysCount(freq_count, freq_name) ==
  str.Latest \o Decimal(freq_count) \o str.space \o freq_name
    \o (IF freq_count # 1 THEN str.s ELSE EmptyString)

\* Lines 279-282
FirstMetricType(freq_count, freq_name) ==
  IF freq_count = 1 THEN str.Latest \o freq_name
  ELSE str.Latest \o Decimal(freq_count) \o str.space \o freq_name \o str.s

\* The label of an older period counted from 0.
AgoMetricTypeFromZero(i, freq_count, freq_name) ==
  LET count == i * freq_count
      unit == IF count = 1 THEN freq_name ELSE freq_name \o str.s
  IN  Decimal(count) \o str.space \o unit \o str.ago

\* Lines 296-298
AgoMetricType(i, freq_count, freq_name) ==
  LET count == (i + 1) * freq_count
      unit == IF count = 1 THEN freq_name ELSE freq_name \o str.s
  IN  Decimal(count) \o str.space \o unit \o str.ago

\* Line 292
AverageMetricType(other_dataframes) ==
  str.Avg \o Decimal(Len(other_dataframes)) \o str.intervals

RECURSIVE SumOf(_)
SumOf(values) == IF values = <<>> THEN 0 ELSE Head(values) + SumOf(Tail(values))

\* numpy's mean of a list of numbers, as the exact fraction sum / count.
Mean(values) == [sum |-> SumOf(values), count |-> Len(values)]

\* The values that column c has at row t in the tables of a list, in order.
RECURSIVE ValuesAt(_, _, _)
ValuesAt(dataframes, c, t) ==
  IF dataframes = <<>> THEN <<>>
  ELSE (IF t \in DOMAIN Head(dataframes).columns[c].cells
        THEN <<Head(dataframes).columns[c].cells[t]>> ELSE <<>>)
         \o ValuesAt(Tail(dataframes), c, t)

\* Lines 290-291: pandas.concat(other_dataframes).groupby(level=0).mean():
\* one row per timestamp of the tables, in increasing order, each cell the
\* mean of the column's values at that timestamp, NaN where it has none.
AggregatedDataframe(other_dataframes) ==
  LET rows == UNION {Range(other_dataframes[i].index) : i \in DOMAIN other_dataframes}
      first == other_dataframes[1]
  IN  [names   |-> first.names,
       index   |-> SortedTimes(rows),
       columns |-> [c \in DOMAIN first.columns |->
                      [first.columns[c] EXCEPT
                         !.cells = [t \in {u \in rows :
                                             ValuesAt(other_dataframes, c, u) # <<>>} |->
                                      Mean(ValuesAt(other_dataframes, c, t))]]]]

\* The older tables left in the order of the periods.
OtherDataframesInOrder(split_dataframes) ==
  SubSeq(split_dataframes, 1, Len(split_dataframes) - 1)

\* Line 286: list(reversed(split_dataframes[:-1]))
OtherDataframes(split_dataframes) ==
  [i \in 1..(Len(split_dataframes) - 1) |-> split_dataframes[Len(split_dataframes) - i]]

\* Lines 278-301: the results, the last period first.
Results(split_dataframes, freq_count, freq_name, use_average) ==
  LET other_dataframes == OtherDataframes(split_dataframes)
  IN  <<QueryResults(split_dataframes[Len(split_dataframes)],
                     FirstMetricType(freq_count, freq_name))>>
        \o (IF Len(other_dataframes) > 1 /\ use_average
            THEN <<QueryResults(AggregatedDataframe(other_dataframes),
                                AverageMetricType(other_dataframes))>>
            ELSE [i \in DOMAIN other_dataframes |->
                    QueryResults(other_dataframes[i],
                                 AgoMetricType(i - 1, freq_count, freq_name))])

\* What a call of timesplit comes to: the exception it raises and the list
\* it returns and, for the claims, the periods its loop walked through,
\* oldest first, each with its start, the start of the next and its rows,
\* how many of them it kept, and the tables of the kept ones once moved.
SplitOutcome(exception, results, periods, kept, shifted) ==
  [raised |-> exception, ret |-> results, periods |-> periods, kept |-> kept,
   shifted |-> shifted]

\* Lines 231-301, for a frequency whose offset moves forward.
TimesplitOutcome(self, freq, use_average, min_points) ==
  IF Empty(self) THEN SplitOutcome("none", <<>>, <<>>, 0, <<>>)
  ELSE
    LET regex_match == RegexMatch(Upper(freq))
    IN  IF regex_match = <<>> THEN SplitOutcome("ValueError", <<>>, <<>>, 0, <<>>)
        ELSE
          Once(OffsetAlias(Upper(freq)), LAMBDA alias :
          Once(to_offset(alias), LAMBDA offset :
          Once(SplitDataframes(self._dataframe, alias, offset), LAMBDA periods :
          Once(DropLast(periods, min_points), LAMBDA split_dataframes :
            IF split_dataframes = <<>>
            THEN SplitOutcome("none", <<>>, periods, 0, <<>>)
            ELSE IF ShiftRaises(split_dataframes)
            THEN SplitOutcome("IndexError", <<>>, periods, Len(split_dataframes), <<>>)
            ELSE Once(ShiftDataframes(split_dataframes), LAMBDA shifted :
                   SplitOutcome("none",
                                Results(shifted, FreqCount(regex_match),
                                        FreqName(regex_match), use_average),
                                periods, Len(split_dataframes), shifted))))))

----------------------------------------------------------------------------
(* _query_results.py: arithmetic. An operand is a Python value with its
   type, [type |-> "int", val |-> 2], [type |-> "str", val |-> a string] or
   [type |-> "QueryResults", val |-> a QueryResults]; the operations are
   those that keep whole numbers whole. *)

\* Lines 108-110: operation_to_symbol
operation_to_symbol(operation) ==
  IF operation = "add" THEN str.plus
  ELSE IF operation = "sub" THEN str.minus
  ELSE str.star

\* Lines 125, 129: getattr(operator, operation) on two numbers.
Operate(operation, x, y) ==
  IF operation = "add" THEN x + y
  ELSE IF operation = "sub" THEN x - y
  ELSE x * y

\* '%s' % number, for a whole number.
StrOf(number) ==
  IF number < 0 THEN str.minus \o Decimal(0 - number) ELSE Decimal(number)

\* set(dataframe.columns)
ColumnKeys(dataframe) == {dataframe.columns[i].key : i \in DOMAIN dataframe.columns}

\* Two QueryResults objects are compatible when their level names agree.
is_compatible_by_names(self, other) ==
  IF other.type # "QueryResults" THEN FALSE
  ELSE self._dataframe.names = other.val._dataframe.names

\* Lines 96-105
is_compatible(self, other) ==
  IF other.type # "QueryResults" THEN FALSE
  ELSE IF self._dataframe.names # other.val._dataframe.names THEN FALSE
  ELSE IF Range(self._dataframe.index) \cap Range(other.val._dataframe.index) = {}
    THEN FALSE
  ELSE IF ColumnKeys(self._dataframe) \cap ColumnKeys(other.val._dataframe) = {}
    THEN FALSE
  ELSE TRUE

\* pandas: a DataFrame and a number, cell by cell; NaN stays NaN.
FrameWithNumber(operation, dataframe, number, reverse_order) ==
  [dataframe EXCEPT
     !.columns = [i \in DOMAIN @ |->
                    [@[i] EXCEPT
                       !.cells = [t \in DOMAIN @ |->
                                    IF reverse_order
                                    THEN Operate(operation, number, @[t])
                                    ELSE Operate(operation, @[t], number)]]]]

\* The column of a table under a key it has.
ColumnOf(dataframe, key) ==
  dataframe.columns[CHOOSE i \in DOMAIN dataframe.columns :
                      dataframe.columns[i].key = key]

\* A set of column keys in increasing order.
RECURSIVE SortedKeys(_)
SortedKeys(keys) ==
  IF keys = {} THEN <<>>
  ELSE LET least == CHOOSE k \in keys : \A other \in keys : KeyLeq(k, other)
       IN  <<least>> \o SortedKeys(keys \ {least})

\* pandas: two DataFrames are aligned on the union of their rows and the
\* union of their columns, both in increasing order, and combined cell by
\* cell; a cell that either lacks is NaN.
FrameWithFrame(operation, left, right) ==
  LET keys == SortedKeys(ColumnKeys(left) \cup ColumnKeys(right))
      Cells(key) ==
        IF key \in ColumnKeys(left) /\ key \in ColumnKeys(right)
        THEN LET l == ColumnOf(left, key).cells
                 r == ColumnOf(right, key).cells
             IN  [t \in DOMAIN l \cap DOMAIN r |-> Operate(operation, l[t], r[t])]
        ELSE <<>>
  IN  [names   |-> left.names,
       index   |-> SortedTimes(Range(left.index) \cup Range(right.index)),
       columns |-> [i \in DOMAIN keys |->
                      [key   |-> keys[i],
                       id    |-> IF keys[i] \in ColumnKeys(left)
                                 THEN ColumnOf(left, keys[i]).id
                                 ELSE ColumnOf(right, keys[i]).id,
                       cells |-> Cells(keys[i])]]]

\* Lines 126-127 and 130-131: '(%s %s %s)'
BinaryMetricType(left, symbol, right) ==
  str.open \o left \o str.space \o symbol \o str.space \o right \o str.close

\* Lines 107-134: _binary_operation(self, other, operation, reverse_order)
BinaryOperationOutcome(self, other, operation, reverse_order) ==
  IF other.type = "QueryResults"
  THEN IF ~is_compatible(self, other) THEN Raises("ValueError")
       ELSE IF reverse_order
         THEN Returns(QueryResults(
                FrameWithFrame(operation, other.val._dataframe, self._dataframe),
                BinaryMetricType(other.val.metric_type,
                                 operation_to_symbol(operation), self.metric_type)))
       ELSE Returns(QueryResults(
              FrameWithFrame(operation, self._dataframe, other.val._dataframe),
              BinaryMetricType(self.metric_type, operation_to_symbol(operation),
                               other.val.metric_type)))
  ELSE IF other.type \in {"int", "float", "long"}
  THEN IF reverse_order
       THEN Returns(QueryResults(
              FrameWithNumber(operation, self._dataframe, other.val, TRUE),
              BinaryMetricType(StrOf(other.val), operation_to_symbol(operation),
                               self.metric_type)))
       ELSE Returns(QueryResults(
              FrameWithNumber(operation, self._dataframe, other.val, FALSE),
              BinaryMetricType(self.metric_type, operation_to_symbol(operation),
                               StrOf(other.val))))
  ELSE Raises("TypeError")

\* numpy.abs, numpy.floor, numpy.ceil, numpy.round on a whole number.
Numpy(operation, x) ==
  IF operation = str.abs THEN (IF x < 0 THEN 0 - x ELSE x) ELSE x

\* Lines 181-184: _unary_operation(self, operation)
UnaryOperationOutcome(self, operation) ==
  Returns(QueryResults(
    [self._dataframe EXCEPT
       !.columns = [i \in DOMAIN @ |->
                      [@[i] EXCEPT
                         !.cells = [t \in DOMAIN @ |-> Numpy(operation, @[t])]]]],
    operation \o str.open \o self.metric_type \o str.close))

----------------------------------------------------------------------------
(* _query.py: the relative time intervals of a Query *)

\* Lines 35-44: the names of TimeInterval
TimeInterval ==
  [TODAY |->
     <<84, 79, 68, 65, 89>>,
   YESTERDAY |->
     <<89, 69, 83, 84, 69, 82, 68, 65, 89>>,
   WEEK_TO_DATE |->
     <<87, 69, 69, 75, 95, 84, 79, 95, 68, 65, 84, 69>>,
   LAST_WEEK |->
     <<76, 65, 83, 84, 95, 87, 69, 69, 75>>,
   MONTH_TO_DATE |->
     <<77, 79, 78, 84, 72, 95, 84, 79, 95, 68, 65, 84, 69>>,
   LAST_MONTH |->
     <<76, 65, 83, 84, 95, 77, 79, 78, 84, 72>>,
   QUARTER_TO_DATE |->
     <<81, 85, 65, 82, 84, 69, 82, 95, 84, 79, 95, 68, 65, 84, 69>>,
   LAST_QUARTER |->
     <<76, 65, 83, 84, 95, 81, 85, 65, 82, 84, 69, 82>>,
   YEAR_TO_DATE |->
     <<89, 69, 65, 82, 95, 84, 79, 95, 68, 65, 84, 69>>,
   LAST_YEAR |->
     <<76, 65, 83, 84, 95, 89, 69, 65, 82>>]

\* Lines 46-48: TimeInterval._FREQ_MAP
FREQ_MAP ==
  (TimeInterval.TODAY :> str.D)
    @@ (TimeInterval.YESTERDAY :> str.D)
    @@ (TimeInterval.WEEK_TO_DATE :> str.W)
    @@ (TimeInterval.LAST_WEEK :> str.W)
    @@ (TimeInterval.MONTH_TO_DATE :> str.MS)
    @@ (TimeInterval.LAST_MONTH :> str.MS)
    @@ (TimeInterval.QUARTER_TO_DATE :> str.QS)
    @@ (TimeInterval.LAST_QUARTER :> str.QS)
    @@ (TimeInterval.YEAR_TO_DATE :> str.AS)
    @@ (TimeInterval.LAST_YEAR :> str.AS)

\* Lines 260-263: end_time - to_offset(offset)
subtract_offset(end_time, offset) ==
  OffsetApply([to_offset(offset) EXCEPT !.n = 0 - @], end_time)

\* Lines 228-257: _get_timestamps(interval) when _get_utcnow() is now; the
\* start and the end of the interval.
get_timestamps(interval, now) ==
  LET name == Upper(interval)
      TO_DATE == <<95, 84, 79, 95, 68, 65, 84, 69>>          \* '_TO_DATE'
      today == ReplaceHour(ReplaceMinute(now))
      ends_now ==
        \/ /\ Len(name) >= Len(TO_DATE)
           /\ SubSeq(name, Len(name) - Len(TO_DATE) + 1, Len(name)) = TO_DATE
        \/ name = TimeInterval.TODAY
  IN  IF name \notin DOMAIN FREQ_MAP THEN Raises("ValueError")
      ELSE LET curr_period_begin == subtract_offset(today, FREQ_MAP[name])
           IN  IF name = TimeInterval.TODAY
               THEN [raised |-> "none", ret |-> <<today, now>>]
               ELSE IF name = TimeInterval.YESTERDAY
               THEN [raised |-> "none", ret |-> <<curr_period_begin, today>>]
               ELSE IF ends_now
               THEN [raised |-> "none", ret |-> <<curr_period_begin, now>>]
               ELSE [raised |-> "none",
                     ret |-> <<subtract_offset(curr_period_begin, FREQ_MAP[name]),
                               curr_period_begin>>]

----------------------------------------------------------------------------
(* _query_results.py: top and bottom, with the default aggregation
   numpy.mean. *)

\* Line 390, df.apply(numpy.mean): the mean of the values of a column, NaN
\* skipped; a column without values has the count 0, which is NaN.
ColumnMean(dataframe, i) ==
  LET rows == SelectIn(dataframe.index, DOMAIN dataframe.columns[i].cells)
  IN  Mean([k \in DOMAIN rows |-> dataframe.columns[i].cells[rows[k]]])

\* Line 390, Series.sort_values(ascending): the positions of the columns in
\* the order of their means. The columns with a mean come first, increasing
\* with equal means in the order of the table, and the whole of it reversed
\* when ascending is false; the columns whose mean is NaN come last.
SortValues(dataframe, ascending) ==
  LET good == {i \in DOMAIN dataframe.columns : ColumnMean(dataframe, i).count > 0}
      bad == {i \in DOMAIN dataframe.columns : ColumnMean(dataframe, i).count = 0}
      Before(j, i) ==
        LET a == ColumnMean(dataframe, j)
            b == ColumnMean(dataframe, i)
        IN  \/ a.sum * b.count < b.sum * a.count
            \/ a.sum * b.count = b.sum * a.count /\ j < i
      increasing == [k \in 1..Cardinality(good) |->
                       CHOOSE i \in good :
                         Cardinality({j \in good : Before(j, i)}) = k - 1]
      sorted == IF ascending THEN increasing
                ELSE [k \in DOMAIN increasing |->
                        increasing[Len(increasing) + 1 - k]]
  IN  sorted \o SelectIn([i \in DOMAIN dataframe.columns |-> i], bad)

\* Lines 377-397: _top_sorted(self, count, percentage, numpy.mean, is_top).
\* df.iloc[:, -count:] is the last count columns when count is between 1
\* and the number of columns, and every column when count is 0, since -0
\* is 0, or more than there are.
TopSortedOutcome(self, count, percentage, is_top) ==
  LET df == self._dataframe
      number == IF percentage.given
                THEN (percentage.val * Len(df.columns) + 99) \div 100
                ELSE count
      order == SortValues(df, is_top)
      first == IF number = 0 \/ number >= Len(order) THEN 1
               ELSE Len(order) + 1 - number
      caller == IF is_top THEN <<116, 111, 112>>                \* 'top'
                ELSE <<98, 111, 116, 116, 111, 109>>           \* 'bottom'
      shown == IF percentage.given THEN StrOf(percentage.val) \o <<37>>  \* '%'
               ELSE StrOf(count)
  IN  IF percentage.given /\ ~(0 < percentage.val /\ percentage.val <= 100)
      THEN Raises("ValueError")
      ELSE Returns(QueryResults(
             [df EXCEPT !.columns = [k \in 1..(Len(order) + 1 - first) |->
                                       df.columns[order[first + k - 1]]]],
             caller \o <<95>> \o shown \o <<95, 109, 101, 97, 110>>   \* '_', '_mean'
               \o str.open \o self.metric_type \o str.close))

----------------------------------------------------------------------------
(* Objects. A table is held by an object, and two names can be bound to the
   same object; an assignment to an attribute of an object changes the
   table of every name bound to it. An object is known by a name: the
   table a function is given is the object "dataframe". *)

\* A copy that is the object it was made from.
DataframeCopySame(object) == object

\* _dataframe.py line 156 and _query_results.py line 39: DataFrame.copy()
\* is a new object, whatever the object it is a copy of.
DataframeCopy(object) == "copy"

\* _dataframe.py lines 156-175: the table that the object the caller gave
\* holds once extract_levels is over. The only assignments are those of
\* lines 165 and 172 to the columns of df_mult, whose right-hand sides are
\* what can raise.
ExtractLevelsInput(dataframe, label, labels) ==
  LET requested == RequestedLabels(label, labels)
      df_mult == DataframeCopy("dataframe")
  IN  IF label.given /\ labels.given THEN dataframe
      ELSE IF NothingToDo(dataframe, requested) THEN dataframe
      ELSE IF ExtractLevelsOutcome(dataframe, label, labels).raised # "none"
        THEN dataframe
      ELSE IF df_mult # "dataframe" THEN dataframe
      ELSE IF Len(requested.val) = 1
        THEN SingleLevelTable(dataframe, requested.val[1])
      ELSE MultiLevelTable(dataframe, requested.val)

\* _dataframe.py lines 124-129: the table that the object the caller gave
\* holds once extract_single_level is over; line 127 assigns to the
\* columns of the object extract_levels returned, which is df_mult (lines
\* 160-161) or the new object that sort_index makes (line 175).
ExtractSingleLevelInput(dataframe, label, labels) ==
  LET out == ExtractLevelsOutcome(dataframe, label, labels)
      after == ExtractLevelsInput(dataframe, label, labels)
      df_single == IF NothingToDo(dataframe, RequestedLabels(label, labels))
                   THEN DataframeCopy("dataframe")
                   ELSE "sort_index"
  IN  IF out.raised # "none" THEN after
      ELSE IF df_single = "dataframe" THEN JoinedTable(after)
      ELSE after

\* What a caller does to the table it got from the property dataframe:
\* it drops the first row, renames the levels, or sets every value to 0.
Modified(dataframe, change) ==
  IF dataframe.index = <<>> THEN dataframe
  ELSE IF change = "drop"
  THEN Slice(dataframe, dataframe.index[1] + 1, dataframe.index[Len(dataframe.index)] + 1)
  ELSE IF change = "rename"
  THEN [dataframe EXCEPT !.names = [i \in DOMAIN @ |-> None]]
  ELSE [dataframe EXCEPT
          !.columns = [i \in DOMAIN @ |->
                         [@[i] EXCEPT !.cells = [t \in DOMAIN @ |-> 0]]]]

----------------------------------------------------------------------------
(* The inputs. *)

SeqsUpTo(S, n) == UNION {[1..k -> S] : k \in 0..n}

EmptyDict == <<>>

TimeSeriesOf(ResourceDicts, MetricDicts, Points) ==
  { [metric      |-> [type |-> str_m, labels |-> m],
     metric_kind |-> str_GAUGE,
     resource    |-> [type |-> str_gce, labels |-> r],
     points      |-> p] :
      r \in ResourceDicts, m \in MetricDicts, p \in Points }

\* The points of a series as the API returns them: newest first.
OnePoint == <<[end_time |-> 2, value |-> 7]>>
TwoPoints == <<[end_time |-> 2, value |-> 5], [end_time |-> 1, value |-> 3]>>

\* The series of the builder's specification: two resource labels, one of
\* them well known, and two metric labels, one under a resource label's name.
BuildSeries ==
  TimeSeriesOf({EmptyDict, zone :> str_a, (zone :> str_a) @@ (instance_id :> str_b)},
               {EmptyDict, zone :> str_b, (zone :> str_b) @@ (code :> str_a)},
               {TwoPoints})

BuildLabelNames == {metric_type, metric_kind, resource_type, zone, code}

\* The series of the projector's specification: a resource label whose
\* values are 'a' and 'a!', and a metric label under the same name.
ProjectSeries ==
  TimeSeriesOf({EmptyDict, zone :> str_a, zone :> str_a_bang}, {EmptyDict},
               {OnePoint})
    \cup TimeSeriesOf({zone :> str_a}, {zone :> str_b}, {OnePoint})

ProjectLabelNames == {metric_type, zone}

\* The arguments of a call: label is None or a name, labels is None or a
\* list of up to MaxLevels different names; the projector is also given the
\* names of the table it is applied to.
LabelArgs(Names) == {NoArg} \cup {Arg(n) : n \in Names}
LabelsArgs(Names) ==
  {NoArg} \cup {Arg(l) : l \in {s \in SeqsUpTo(Names, MaxLevels) : ~HasDuplicates(s)}}
ProjectLabelsArgs(ret) ==
  IF ret = <<>> THEN {}
  ELSE LabelsArgs(ProjectLabelNames)
         \cup (IF None \in Range(ret[1].names) THEN {} ELSE {Arg(ret[1].names)})

\* The rows of the tables of a QueryResults object: the night and the
\* afternoon of Wednesday 2016-03-02, the three days before it, of which
\* the first is a Sunday and the second the end of February, a day of the
\* week before, the first instant of 2016 and a day of the year before.
SplitTimes ==
  { Timestamp(2015, 11, 20, 6, 0), Timestamp(2016, 1, 1, 0, 0),
    Timestamp(2016, 2, 24, 12, 0), Timestamp(2016, 2, 28, 0, 0),
    Timestamp(2016, 2, 29, 18, 0), Timestamp(2016, 3, 1, 10, 0),
    Timestamp(2016, 3, 2, 3, 10), Timestamp(2016, 3, 2, 14, 0),
    Timestamp(2016, 3, 2, 14, 30), Timestamp(2016, 3, 2, 15, 20) }

RowSets == {rows \in SUBSET SplitTimes : Cardinality(rows) <= MaxRows}

\* A table as _build_dataframe gives it for the series of keys with
\* labels=['metric_type', 'zone']: the first series has a point at every
\* row, the others only at the rows on the hour.
ResultsTable(rows, keys) ==
  [names   |-> <<metric_type, zone>>,
   index   |-> SortedTimes(rows),
   columns |-> [i \in DOMAIN keys |->
                  [key   |-> keys[i],
                   id    |-> i,
                   cells |-> [t \in {u \in rows : i = 1 \/ u % 60 = 0} |->
                                ((t \div 10) % 5) + i]]]]

ResultsTables ==
  {ResultsTable(rows, <<<<str_m, str_a>>, <<str_m, str_b>>>>) : rows \in RowSets}
    \cup {ResultsTable(rows, <<>>) : rows \in {r \in RowSets : Cardinality(r) = 1}}

\* The freq argument of timesplit: strings of the form the docstring asks
\* for, in either case, and strings that are not.
ValidFrequencies ==
  { <<72>>,              \* 'H'
    <<50, 72>>,          \* '2H'
    <<68>>,              \* 'D'
    <<49, 100>>,         \* '1d'
    <<50, 68>>,          \* '2D'
    <<87>>,              \* 'W'
    <<50, 87>>,          \* '2W'
    <<77>>,              \* 'M'
    <<49, 77>>,          \* '1M'
    <<81>>,              \* 'Q'
    <<50, 81>>,          \* '2Q'
    <<65>>,              \* 'A'
    <<49, 65>> }         \* '1A'

InvalidFrequencies ==
  { <<>>,                \* ''
    <<88>>,              \* 'X'
    <<68, 49>>,          \* 'D1'
    <<50>>,              \* '2'
    <<49, 32, 68>> }     \* '1 D'

\* The min_points argument of timesplit; 2 is the default.
MinPoints == {0, 1, 2, 3}

\* The least time, in minutes, that an offset moves a timestamp forward.
LeastSpan(offset) ==
  offset.n * (IF offset.rule = str.H THEN 60
              ELSE IF offset.rule = str.D THEN 1440
              ELSE IF offset.rule = str.W THEN 7 * 1440
              ELSE IF offset.rule \in {str.M, str.MS} THEN 28 * 1440
              ELSE IF offset.rule \in {str.Q, str.QS} THEN 89 * 1440
              ELSE 365 * 1440)

\* The calls of timesplit of the model: those whose loop ends, within
\* MaxPeriods periods.
WithinPeriods(self, freq) ==
  IF Empty(self) \/ RegexMatch(Upper(freq)) = <<>> THEN TRUE
  ELSE LET alias == OffsetAlias(Upper(freq))
           offset == to_offset(alias)
           dataframe == self._dataframe
       IN  /\ offset.n >= 1
           /\ dataframe.index[Len(dataframe.index)]
                - FirstStartTime(dataframe, alias, offset)
                  < MaxPeriods * LeastSpan(offset)

\* The tables of a QueryResults object that the caller goes on using: the
\* rows of the last three days.
FrameTables ==
  {dataframe \in ResultsTables :
     Range(dataframe.index) \subseteq
       { Timestamp(2016, 2, 29, 18, 0), Timestamp(2016, 3, 1, 10, 0),
         Timestamp(2016, 3, 2, 3, 10), Timestamp(2016, 3, 2, 14, 0),
         Timestamp(2016, 3, 2, 14, 30) }}

\* The other operands of a binary operation: two numbers, a string, and
\* QueryResults objects of which the first has a column and rows of the
\* tables above, the second rows of another year, the third another level.
Operands ==
  << [type |-> "int", val |-> 2],
    [type |-> "int", val |-> 0 - 1],
    [type |-> "str", val |-> str_a],
    [type |-> "QueryResults",
     val  |-> QueryResults(ResultsTable({Timestamp(2016, 3, 1, 10, 0),
                                         Timestamp(2016, 3, 2, 14, 0)},
                                        <<<<str_m, str_b>>>>), str_b)],
    [type |-> "QueryResults",
     val  |-> QueryResults(ResultsTable({Timestamp(2015, 11, 20, 6, 0)},
                                        <<<<str_m, str_b>>>>), str_b)],
    [type |-> "QueryResults",
     val  |-> QueryResults(SingleLevelTable(
                             ResultsTable({Timestamp(2016, 3, 2, 14, 0)},
                                          <<<<str_m, str_b>>>>), zone), str_b)] >>

----------------------------------------------------------------------------
(* The state machine. *)

NoCall == [fn |-> "none", label |-> NoArg, labels |-> NoArg, arg |-> <<>>,
           raised |-> "none", ret |-> <<>>]

\* No QueryResults object: the builder and the projector work on tables.
NoResults == [_dataframe |-> <<>>, metric_type |-> <<>>]

InitBuild ==
  /\ series \in SeqsUpTo(BuildSeries, MaxSeries)
  /\ consumed = 0
  /\ call = NoCall
  /\ qr = NoResults

Init ==
  /\ series \in SeqsUpTo(ProjectSeries, MaxSeries)
  /\ consumed = 0
  /\ call = NoCall
  /\ qr = NoResults

\* A call of _build_dataframe(series, label, labels).
BuildDataframe(label, labels) ==
  LET out == BuildOutcome(series, label, labels)
  IN  /\ call' = [fn |-> "_build_dataframe", label |-> label, labels |-> labels,
                  arg |-> <<>>, raised |-> out.raised, ret |-> out.ret]
      /\ consumed' = BuildConsumed(series, label, labels)
      /\ UNCHANGED <<series, qr>>

\* A call of extract_levels(dataframe, label, labels) on the table the
\* previous call returned.
ExtractLevels(label, labels) ==
  /\ call.ret # <<>>
  /\ LET out == ExtractLevelsOutcome(call.ret[1], label, labels)
     IN  call' = [fn |-> "extract_levels", label |-> label, labels |-> labels,
                  arg |-> call.ret, raised |-> out.raised, ret |-> out.ret]
  /\ UNCHANGED <<series, consumed, qr>>

\* A call of extract_single_level(dataframe, label, labels) on the table
\* the previous call returned.
ExtractSingleLevel(label, labels) ==
  /\ call.ret # <<>>
  /\ LET out == ExtractSingleLevelOutcome(call.ret[1], label, labels)
     IN  call' = [fn |-> "extract_single_level", label |-> label,
                  labels |-> labels, arg |-> call.ret,
                  raised |-> out.raised, ret |-> out.ret]
  /\ UNCHANGED <<series, consumed, qr>>

\* The builder alone: one call on each input.
NextBuild ==
  /\ call = NoCall
  /\ \E label \in LabelArgs(BuildLabelNames), labels \in LabelsArgs(BuildLabelNames) :
       BuildDataframe(label, labels)

\* The builder and the projector: the builder, whose result depends on the
\* series and its arguments alone, is called first, and the projector then
\* on the table the previous call returned.
Next ==
  \/ /\ call = NoCall
     /\ \E label \in LabelArgs(ProjectLabelNames),
           labels \in LabelsArgs(ProjectLabelNames) :
          BuildDataframe(label, labels)
  \/ \E label \in LabelArgs(ProjectLabelNames), labels \in ProjectLabelsArgs(call.ret) :
       ExtractLevels(label, labels)
  \/ \E label \in LabelArgs(ProjectLabelNames), labels \in ProjectLabelsArgs(call.ret) :
       ExtractSingleLevel(label, labels)

\* A QueryResults object on each table, and one call on it.
InitResults ==
  /\ series = <<>>
  /\ consumed = 0
  /\ call = NoCall
  /\ qr \in {QueryResults(dataframe, str_m) : dataframe \in ResultsTables}

\* The record of a call of self.timesplit(freq, use_average, min_points).
TimesplitCall(self, freq, use_average, min_points) ==
  Once(TimesplitOutcome(self, freq, use_average, min_points), LAMBDA out :
    [fn |-> "timesplit", freq |-> freq, use_average |-> use_average,
     min_points |-> min_points, arg |-> <<self._dataframe>>,
     raised |-> out.raised, ret |-> out.ret, periods |-> out.periods,
     kept |-> out.kept, shifted |-> out.shifted])

\* A call of qr.timesplit(freq, use_average, min_points).
Timesplit(freq, use_average, min_points) ==
  /\ WithinPeriods(qr, freq)
  /\ call' = TimesplitCall(qr, freq, use_average, min_points)
  /\ UNCHANGED <<series, consumed, qr>>

NextResults ==
  \/ /\ call = NoCall
     /\ \E freq \in ValidFrequencies \cup InvalidFrequencies,
           use_average \in BOOLEAN, min_points \in MinPoints :
          Timesplit(freq, use_average, min_points)

\* A QueryResults object on a table of the caller's: line 34 stores the
\* table it is given, so that qr._dataframe and the caller's table are one
\* object, the object "dataframe" of the projector and "_dataframe" of the
\* property.
InitFrame ==
  /\ series = <<>>
  /\ consumed = 0
  /\ call = NoCall
  /\ qr \in {QueryResults(dataframe, str_m) : dataframe \in FrameTables}

\* A call of extract_levels(dataframe, label, labels) on the caller's table.
ExtractLevelsOfStored(label, labels) ==
  /\ LET out == ExtractLevelsOutcome(qr._dataframe, label, labels)
     IN  call' = [fn |-> "extract_levels", label |-> label, labels |-> labels,
                  arg |-> <<qr._dataframe>>, raised |-> out.raised,
                  ret |-> out.ret]
  /\ qr' = [qr EXCEPT !._dataframe = ExtractLevelsInput(@, label, labels)]
  /\ UNCHANGED <<series, consumed>>

\* A call of extract_single_level(dataframe, label, labels) on the
\* caller's table.
ExtractSingleLevelOfStored(label, labels) ==
  /\ LET out == ExtractSingleLevelOutcome(qr._dataframe, label, labels)
     IN  call' = [fn |-> "extract_single_level", label |-> label,
                  labels |-> labels, arg |-> <<qr._dataframe>>,
                  raised |-> out.raised, ret |-> out.ret]
  /\ qr' = [qr EXCEPT !._dataframe = ExtractSingleLevelInput(@, label, labels)]
  /\ UNCHANGED <<series, consumed>>

\* qr + other, other + qr and the like: lines 136-179 call
\* _binary_operation, which reads self._dataframe and other._dataframe and
\* assigns to neither.
BinaryOperation(other, operation, reverse_order) ==
  /\ LET out == BinaryOperationOutcome(qr, other, operation, reverse_order)
     IN  call' = [fn |-> "_binary_operation", other |-> other,
                  operation |-> operation, reverse_order |-> reverse_order,
                  arg |-> <<qr._dataframe>>, raised |-> out.raised,
                  ret |-> out.ret]
  /\ UNCHANGED <<series, consumed, qr>>

\* abs(qr), qr.floor() and the like: lines 186-200 call _unary_operation,
\* which gives numpy the table and assigns nothing.
UnaryOperation(operation) ==
  /\ LET out == UnaryOperationOutcome(qr, operation)
     IN  call' = [fn |-> "_unary_operation", operation |-> operation,
                  arg |-> <<qr._dataframe>>, raised |-> out.raised,
                  ret |-> out.ret]
  /\ UNCHANGED <<series, consumed, qr>>

\* The caller reads qr.dataframe, which lines 37-39 make a copy of
\* self._dataframe, and changes the table it got.
ChangeDataframe(change) ==
  /\ call' = [fn |-> "dataframe", change |-> change, arg |-> <<qr._dataframe>>,
              raised |-> "none", ret |-> <<Modified(qr._dataframe, change)>>]
  /\ qr' = IF DataframeCopy("_dataframe") = "_dataframe"
           THEN [qr EXCEPT !._dataframe = Modified(@, change)]
           ELSE qr
  /\ UNCHANGED <<series, consumed>>

\* qr.top(count, percentage) when is_top and qr.bottom(count, percentage)
\* when not (lines 412 and 427), on a table with columns.
TopSorted(count, percentage, is_top) ==
  /\ qr._dataframe.columns # <<>>
  /\ LET out == TopSortedOutcome(qr, count, percentage, is_top)
     IN  call' = [fn |-> "_top_sorted", count |-> count, percentage |-> percentage,
                  is_top |-> is_top, arg |-> <<qr._dataframe>>,
                  raised |-> out.raised, ret |-> out.ret]
  /\ UNCHANGED <<series, consumed, qr>>

\* One operation on each QueryResults object.
NextFrame ==
  \/ /\ call = NoCall
     /\ \E label \in LabelArgs(ProjectLabelNames),
           labels \in ProjectLabelsArgs(<<qr._dataframe>>) :
          ExtractLevelsOfStored(label, labels)
  \/ /\ call = NoCall
     /\ \E label \in LabelArgs(ProjectLabelNames),
           labels \in ProjectLabelsArgs(<<qr._dataframe>>) :
          ExtractSingleLevelOfStored(label, labels)
  \/ /\ call = NoCall
     /\ \E freq \in ValidFrequencies \cup InvalidFrequencies,
           use_average \in BOOLEAN, min_points \in MinPoints :
          Timesplit(freq, use_average, min_points)
  \/ /\ call = NoCall
     /\ \E i \in DOMAIN Operands, operation \in {"add", "sub", "mul"},
           reverse_order \in BOOLEAN :
          BinaryOperation(Operands[i], operation, reverse_order)
  \/ /\ call = NoCall
     /\ \E operation \in {str.abs, str.floor, str.ceil, str.round} :
          UnaryOperation(operation)
  \/ /\ call = NoCall
     /\ \E change \in {"drop", "rename", "zero"} : ChangeDataframe(change)
  \/ /\ call = NoCall
     /\ \E count \in 0..3, is_top \in BOOLEAN,
           percentage \in {NoArg} \cup {[given |-> TRUE, val |-> p] :
                                        p \in {0 - 5, 0, 1, 50, 100, 101}} :
          TopSorted(count, percentage, is_top)

SpecFrame == InitFrame /\ [][NextFrame]_vars

\* Lines 231-258 of a call of qr.timesplit(freq) that reaches the loop: the
\* table is not empty and freq matches.
SplitBegin(freq) ==
  /\ call = NoCall
  /\ ~Empty(qr)
  /\ RegexMatch(Upper(freq)) # <<>>
  /\ LET alias == OffsetAlias(Upper(freq))
         offset == to_offset(alias)
         first_start_time == FirstStartTime(qr._dataframe, alias, offset)
     IN  call' = [fn |-> "timesplit", line |-> 261, freq |-> freq,
                  offset |-> offset, arg |-> <<qr._dataframe>>,
                  start_time |-> first_start_time,
                  new_start_time |-> first_start_time,
                  split_dataframes |-> <<>>]
  /\ UNCHANGED <<series, consumed, qr>>

\* Lines 261-266: one iteration of the loop.
SplitIterate ==
  /\ call.fn = "timesplit" /\ call.line = 261
  /\ call.new_start_time <= qr._dataframe.index[Len(qr._dataframe.index)]
  /\ Len(call.split_dataframes) < MaxPeriods
  /\ LET start_time == call.new_start_time
         new_start_time == OffsetApply(call.offset, start_time)
     IN  call' = [call EXCEPT
                    !.start_time = start_time,
                    !.new_start_time = new_start_time,
                    !.split_dataframes =
                      Append(@, Slice(qr._dataframe, start_time, new_start_time))]
  /\ UNCHANGED <<series, consumed, qr>>

\* Line 261: the condition of the loop is false, the call goes on at
\* line 268.
SplitLeave ==
  /\ call.fn = "timesplit" /\ call.line = 261
  /\ call.new_start_time > qr._dataframe.index[Len(qr._dataframe.index)]
  /\ call' = [call EXCEPT !.line = 268]
  /\ UNCHANGED <<series, consumed, qr>>

\* The frequencies of the calls above and two with the count 0, '0D' and
\* '0H', which line 237 matches as well.
NextLoop ==
  \/ \E freq \in ValidFrequencies \cup {<<48, 68>>, <<48, 72>>} : SplitBegin(freq)
  \/ SplitIterate
  \/ SplitLeave

\* The loop of timesplit, one iteration at a time, on each table.
SpecLoop == InitResults /\ [][NextLoop]_vars

\* No call of _get_timestamps yet.
InitInterval ==
  /\ series = <<>>
  /\ consumed = 0
  /\ call = NoCall
  /\ qr = NoResults

\* A call of _get_timestamps(interval) at the time now of the clock.
GetTimestamps(interval, now) ==
  /\ call = NoCall
  /\ LET out == get_timestamps(interval, now)
     IN  call' = [fn |-> "_get_timestamps", interval |-> interval, now |-> now,
                  raised |-> out.raised, ret |-> out.ret]
  /\ UNCHANGED <<series, consumed, qr>>

\* The names of TimeInterval, two of them in lower case as well, and two
\* strings that are no name: '' and 'TOMORROW'.
NextInterval ==
  \E interval \in Range(TimeInterval)
                    \cup {<<116, 111, 100, 97, 121>>,
                          <<109, 111, 110, 116, 104, 95, 116, 111, 95, 100, 97, 116, 101>>,
                          <<>>, <<84, 79, 77, 79, 82, 82, 79, 87>>},
     now \in SplitTimes :
    GetTimestamps(interval, now)

SpecInterval == InitInterval /\ [][NextInterval]_vars

SpecResults == InitResults /\ [][NextResults]_vars

SpecBuild == InitBuild /\ [][NextBuild]_vars

Spec == Init /\ [][Next]_vars

----------------------------------------------------------------------------
(* The claims. *)

Returned == call.raised = "none" /\ call.ret # <<>>

IsBuild == call.fn = "_build_dataframe"
IsExtractLevels == call.fn = "extract_levels"
IsExtractSingleLevel == call.fn = "extract_single_level"

\* The level list a projector call asks for, <<>> when it asks for none.
Requested ==
  IF call.label.given THEN <<call.label.val>>
  ELSE IF call.labels.given THEN call.labels.val
  ELSE <<>>

ExactlyOneGiven == call.label.given # call.labels.given

\* C1: a call of _build_dataframe, extract_levels or extract_single_level
\* that is given both label and labels raises ValueError and returns no
\* table, whatever the series or the input table.
BothGivenFails ==
  (call.fn # "none" /\ call.label.given /\ call.labels.given)
    => (call.raised = "ValueError" /\ call.ret = <<>>)

BothGivenReached ==
  /\ IsExtractSingleLevel
  /\ call.label.given /\ call.labels.given /\ call.labels.val # <<>>
  /\ Len(call.arg[1].columns) = 2
  /\ call.raised = "ValueError"

\* C2: _build_dataframe given an empty labels list raises ValueError, and
\* does so before it has taken any series from the iterable or built any
\* column.
EmptyLabelsFailsFirst ==
  (IsBuild /\ call.labels.given /\ call.labels.val = <<>>)
    => (call.raised = "ValueError" /\ call.ret = <<>> /\ consumed = 0)

EmptyLabelsReached ==
  /\ IsBuild
  /\ ~call.label.given /\ call.labels = Arg(<<>>)
  /\ Len(series) >= 1
  /\ call.raised = "ValueError"

\* C3: in the table _build_dataframe returns, the header of the column of
\* each series has one part per requested level name, in order: the metric
\* type, the metric kind, the resource type, or for any other name the
\* value under that key in the series' resource and metric labels, the
\* empty string when neither has the key.
BuiltLevels ==
  IF call.labels.given THEN call.labels.val
  ELSE IF call.label.given THEN <<call.label.val>>
  ELSE call.ret[1].names

CombinedLabelMapping(ts) ==
  [k \in DOMAIN ts.resource.labels \cup DOMAIN ts.metric.labels |->
     IF k \in DOMAIN ts.metric.labels THEN ts.metric.labels[k]
     ELSE ts.resource.labels[k]]

HeaderPart(ts, name) ==
  IF name = metric_type THEN ts.metric.type
  ELSE IF name = metric_kind THEN ts.metric_kind
  ELSE IF name = resource_type THEN ts.resource.type
  ELSE IF name \in DOMAIN CombinedLabelMapping(ts) THEN CombinedLabelMapping(ts)[name]
  ELSE EmptyString

HeaderPartsAsRequested ==
  (IsBuild /\ Returned) =>
    LET columns == call.ret[1].columns
    IN  /\ Len(columns) = Len(series)
        /\ \A i \in DOMAIN series : \E c \in DOMAIN columns : columns[c].id = i
        /\ \A c \in DOMAIN columns :
             /\ Len(columns[c].key) = Len(BuiltLevels)
             /\ \A j \in DOMAIN BuiltLevels :
                  columns[c].key[j] = HeaderPart(series[columns[c].id], BuiltLevels[j])

HeaderPartsReached ==
  /\ IsBuild /\ Returned
  /\ call.labels = Arg(<<code, resource_type>>)
  /\ \E c, d \in DOMAIN call.ret[1].columns :
       /\ call.ret[1].columns[c].key = <<EmptyString, str_gce>>
       /\ call.ret[1].columns[d].key = <<str_a, str_gce>>

\* C4: with neither label nor labels, the level list of the built table is
\* metric_type, metric_kind, resource_type, then the resource-label keys of
\* all the series in the resource order, then their metric-label keys in
\* alphabetical order, and no key occurs in it twice.
DefaultLevelsNoKeyRepeated ==
  (IsBuild /\ ~call.label.given /\ ~call.labels.given /\ Returned) =>
    LET resource_keys == UNION {DOMAIN series[i].resource.labels : i \in DOMAIN series}
        metric_keys == UNION {DOMAIN series[i].metric.labels : i \in DOMAIN series}
    IN  /\ call.ret[1].names =
             <<metric_type, metric_kind, resource_type>>
               \o SortedResourceLabels(resource_keys) \o Sorted(metric_keys)
        /\ ~HasDuplicates(call.ret[1].names)

\* C5: the column keys of every table that _build_dataframe, extract_levels
\* or extract_single_level returns are in non-decreasing order.
ReturnedColumnsSorted ==
  (call.fn # "none" /\ Returned) => ColumnsSorted(call.ret[1].columns)

\* C6: extract_levels returns a table equal to its input when labels is
\* None, is the empty list, or is the list of the input's level names.
NothingToDoReturnsInput ==
  (/\ IsExtractLevels /\ ~call.label.given
   /\ \/ ~call.labels.given
      \/ call.labels.val = <<>>
      \/ call.labels.val = call.arg[1].names)
    => (Returned /\ call.ret = call.arg)

\* C7: extract_levels with a list of two or more names returns the input's
\* columns, each under the key that has, for every name of the list in
\* order, the column's value at the input level of that name, or the empty
\* string when the input has no level of that name.
ProjectedKey(names, key, levels) ==
  [j \in DOMAIN levels |->
     IF levels[j] \in Range(names)
     THEN key[CHOOSE i \in DOMAIN names : names[i] = levels[j]]
     ELSE EmptyString]

MultiLevelProjectionKeys ==
  (IsExtractLevels /\ ~call.label.given /\ call.labels.given
     /\ Len(call.labels.val) >= 2) =>
    /\ Returned
    /\ Len(call.ret[1].columns) = Len(call.arg[1].columns)
    /\ \A a \in DOMAIN call.arg[1].columns :
         \E c \in DOMAIN call.ret[1].columns :
           /\ call.ret[1].columns[c].id = call.arg[1].columns[a].id
           /\ call.ret[1].columns[c].key =
                ProjectedKey(call.arg[1].names, call.arg[1].columns[a].key,
                             call.labels.val)

\* C8: extract_levels asked for exactly one level, by label or by a list of
\* one name, that the input does not have returns a table in which that
\* level is the empty string for every column.
MissingSingleLevelInserted ==
  (IsExtractLevels /\ ExactlyOneGiven /\ Len(Requested) = 1
     /\ Requested[1] \notin Range(call.arg[1].names)) =>
    /\ Returned
    /\ \A c \in DOMAIN call.ret[1].columns :
         call.ret[1].columns[c].key = <<EmptyString>>

\* C9: for a level list of one or more names, extract_levels returns a
\* table, and extract_levels of that table with the same list returns it
\* again: the same names, keys, column order and cells.
ProjectionIdempotent ==
  (IsExtractLevels /\ ExactlyOneGiven /\ Len(Requested) >= 1) =>
    /\ Returned
    /\ ExtractLevelsOutcome(call.ret[1], call.label, call.labels)
         = Returns(call.ret[1])

\* C10: when _build_dataframe was called with neither label nor labels and
\* extract_levels is then called on the table it returned, with the level
\* names of that table as labels, extract_levels returns the same table.
DefaultRoundTrip ==
  [][(/\ IsBuild /\ ~call.label.given /\ ~call.labels.given /\ Returned
      /\ call'.fn = "extract_levels"
      /\ ~call'.label.given /\ call'.labels = Arg(call.ret[1].names))
       => (call'.raised = "none" /\ call'.ret = call.ret)]_vars

DefaultRoundTripReached ==
  /\ IsExtractLevels /\ Returned
  /\ ~call.label.given /\ call.labels = Arg(call.arg[1].names)
  /\ Len(call.arg[1].names) >= 4
  /\ SubSeq(call.arg[1].names, 1, 3) = <<metric_type, metric_kind, resource_type>>
  /\ Len(call.arg[1].columns) = 2
  /\ call.ret = call.arg

\* C11: every table extract_single_level returns has a flat header, one
\* string per column: the column's value at the selected level when one
\* level is selected, and otherwise the column's values at the levels that
\* remain, in the order the levels were given, joined with ', '.
SelectedParts(names, key) ==
  IF ExactlyOneGiven THEN ProjectedKey(names, key, Requested) ELSE key

FlatName(names, key) == Join(CommaSpace, SelectedParts(names, key))

SingleLevelHeaderJoined ==
  (IsExtractSingleLevel /\ Returned) =>
    LET input == call.arg[1]
        output == call.ret[1]
    IN  /\ Len(output.names) = 1
        /\ Len(output.columns) = Len(input.columns)
        /\ \A a \in DOMAIN input.columns :
             \E c \in DOMAIN output.columns :
               /\ output.columns[c].id = input.columns[a].id
               /\ output.columns[c].cells = input.columns[a].cells
               /\ output.columns[c].key =
                    <<FlatName(input.names, input.columns[a].key)>>

SingleLevelHeaderJoinedReached ==
  /\ IsExtractSingleLevel /\ Returned
  /\ ~call.label.given /\ call.labels = Arg(<<zone, metric_type>>)
  /\ Len(call.arg[1].names) >= 4
  /\ \E c \in DOMAIN call.ret[1].columns :
       call.ret[1].columns[c].key = <<str_a \o CommaSpace \o str_m>>

\* C12: in the table extract_single_level returns, a run of adjacent
\* columns whose flat names are equal is told apart by a numeric suffix: the
\* first keeps the name X and the following ones are X#2, X#3, ..., so that
\* no two adjacent columns have the same name.
NumberSign == <<35>>                         \* '#'

\* The flat name, before any suffix, of the column at position c of the output.
BaseName(c) ==
  LET input == call.arg[1]
      a == CHOOSE a \in DOMAIN input.columns :
             input.columns[a].id = call.ret[1].columns[c].id
  IN  FlatName(input.names, input.columns[a].key)

\* The place of column c in its run of equal base names, from 1.
RunPosition(c) ==
  Cardinality({b \in 1..c : \A d \in b..c : BaseName(d) = BaseName(c)})

AdjacentNamesDeduplicated ==
  (IsExtractSingleLevel /\ Returned) =>
    LET columns == call.ret[1].columns
    IN  /\ \A c \in DOMAIN columns :
             columns[c].key =
               <<IF RunPosition(c) = 1 THEN BaseName(c)
                 ELSE BaseName(c) \o NumberSign \o <<48 + RunPosition(c)>> >>
        /\ \A c \in 1..(Len(columns) - 1) : columns[c].key # columns[c + 1].key

----------------------------------------------------------------------------
(* The claims about timesplit. *)

IsTimesplit == call.fn = "timesplit"

SplitReturned == IsTimesplit /\ call.raised = "none"

InputTable == call.arg[1]

InputRows == Range(call.arg[1].index)

InputEmpty == call.arg[1].index = <<>> \/ call.arg[1].columns = <<>>

\* The letters H, D, W, M, Q, A in upper and in lower case.
UnitLetters == {72, 68, 87, 77, 81, 65, 104, 100, 119, 109, 113, 97}

\* freq is an optional integer count followed by a unit.
WellFormed(freq) ==
  /\ freq # <<>>
  /\ freq[Len(freq)] \in UnitLetters
  /\ \A i \in 1..(Len(freq) - 1) : IsDigit(freq[i])

\* The count of a well-formed freq, 1 when it is left out.
CountOf(freq) ==
  IF Len(freq) = 1 THEN 1 ELSE IntOf(SubSeq(freq, 1, Len(freq) - 1))

\* The name of the unit of a well-formed freq.
UnitNameOf(freq) ==
  LET letter == freq[Len(freq)]
  IN  IF letter \in {72, 104} THEN str.hour
      ELSE IF letter \in {68, 100} THEN str.day
      ELSE IF letter \in {87, 119} THEN str.week
      ELSE IF letter \in {77, 109} THEN str.month
      ELSE IF letter \in {81, 113} THEN str.quarter
      ELSE str.year

\* The periods the call kept, oldest first.
Kept == SubSeq(call.periods, 1, call.kept)

\* The kept period that is k periods before the latest kept one.
KeptBefore(k) == call.periods[call.kept - k]

\* result is original with every row moved by the same span of time: the
\* same number of rows, and in every column the same values at the moved rows.
IsMoved(result, original) ==
  /\ Len(result.index) = Len(original.index)
  /\ Len(result.columns) = Len(original.columns)
  /\ result.index # <<>> =>
       LET delta == result.index[1] - original.index[1]
       IN  /\ \A i \in DOMAIN original.index : result.index[i] = original.index[i] + delta
           /\ \A c \in DOMAIN original.columns :
                /\ result.columns[c].key = original.columns[c].key
                /\ DOMAIN result.columns[c].cells
                     = {t + delta : t \in DOMAIN original.columns[c].cells}
                /\ \A t \in DOMAIN original.columns[c].cells :
                     result.columns[c].cells[t + delta] = original.columns[c].cells[t]

\* C14: timesplit given a freq that is not an optional integer count
\* followed by one of H, D, W, M, Q, A, in either case, raises ValueError
\* and returns nothing, whatever the table.
InvalidFrequencyFails ==
  (IsTimesplit /\ ~WellFormed(call.freq))
    => (call.raised = "ValueError" /\ call.ret = <<>>)

\* C15: timesplit on a table with no row or no column returns the empty
\* list, for every well-formed freq, use_average and min_points.
EmptyTableSplitsToNothing ==
  (IsTimesplit /\ WellFormed(call.freq) /\ InputEmpty)
    => (call.raised = "none" /\ call.ret = <<>>)

EmptyTableSplitReached ==
  /\ IsTimesplit /\ call.freq = <<50, 87>> /\ call.use_average /\ call.min_points = 0
  /\ call.arg[1].columns = <<>> /\ Len(call.arg[1].index) = 1
  /\ call.raised = "none" /\ call.ret = <<>>

\* C16: when timesplit returns with use_average false, the rows of the
\* returned tables, each moved back by the time its table was moved, are
\* the rows of the input, each exactly once and with its values, except
\* the rows of a dropped last period, which are fewer than min_points; the
\* periods are half-open windows that follow one another with no time
\* between two of them.
\* The rows of result k before they were moved.
OriginalRows(k) ==
  LET result == call.ret[k]._dataframe
      delta == result.index[1] - KeptBefore(k - 1).df.index[1]
  IN  {t - delta : t \in Range(result.index)}

\* The rows of the input after the periods that were kept.
DroppedRows ==
  IF call.kept = 0 THEN InputRows
  ELSE {t \in InputRows : t >= call.periods[call.kept].new_start_time}

SplitCoversRows ==
  (SplitReturned /\ WellFormed(call.freq) /\ ~InputEmpty /\ ~call.use_average) =>
    /\ Len(call.ret) = call.kept
    /\ \A j \in DOMAIN call.periods :
         /\ call.periods[j].start_time < call.periods[j].new_start_time
         /\ j < Len(call.periods) =>
              call.periods[j].new_start_time = call.periods[j + 1].start_time
    /\ \A k \in DOMAIN call.ret :
         /\ OriginalRows(k) \subseteq InputRows
         /\ \A t \in OriginalRows(k) :
              /\ KeptBefore(k - 1).start_time <= t
              /\ t < KeptBefore(k - 1).new_start_time
         /\ IsMoved(call.ret[k]._dataframe,
                    Slice(InputTable, KeptBefore(k - 1).start_time,
                          KeptBefore(k - 1).new_start_time))
    /\ \A t \in InputRows \ DroppedRows :
         Cardinality({k \in DOMAIN call.ret : t \in OriginalRows(k)}) = 1
    /\ \A t \in DroppedRows : \A k \in DOMAIN call.ret : t \notin OriginalRows(k)
    /\ DroppedRows # {} =>
         /\ call.kept = Len(call.periods) - 1
         /\ Cardinality(DroppedRows) < call.min_points

SplitCoversRowsReached ==
  /\ SplitReturned /\ ~call.use_average /\ call.freq = str.W /\ call.min_points = 1
  /\ Len(call.ret) = 2
  /\ InputTable.index = <<Timestamp(2016, 2, 24, 12, 0), Timestamp(2016, 2, 28, 0, 0),
                          Timestamp(2016, 3, 2, 14, 0)>>

\* C17: the list timesplit returns has the latest kept period first: its
\* first table holds the rows of that period, and unless two or more older
\* periods are averaged the table at place k + 1 holds the rows of the
\* period k periods before it, so that the list is as long as there are
\* kept periods; when two or more older periods are averaged the list has
\* two tables.
MostRecentFirst ==
  (SplitReturned /\ call.ret # <<>>) =>
    /\ call.ret[1]._dataframe = call.periods[call.kept].df
    /\ IF call.use_average /\ call.kept >= 3
       THEN Len(call.ret) = 2
       ELSE /\ Len(call.ret) = call.kept
            /\ \A k \in 1..(call.kept - 1) :
                 /\ IsMoved(call.ret[k + 1]._dataframe, KeptBefore(k).df)
                 /\ KeptBefore(k).start_time < KeptBefore(k - 1).start_time
                 /\ KeptBefore(k).new_start_time = KeptBefore(k - 1).start_time

MostRecentFirstReached ==
  /\ SplitReturned /\ ~call.use_average /\ call.freq = str.D /\ call.min_points = 1
  /\ Len(call.ret) = 3
  /\ InputTable.index = <<Timestamp(2016, 2, 28, 0, 0), Timestamp(2016, 2, 29, 18, 0),
                          Timestamp(2016, 3, 1, 10, 0)>>
  /\ call.ret[1]._dataframe.index = <<Timestamp(2016, 3, 1, 10, 0)>>

\* C18, as claimed: the first table timesplit returns is labelled 'Latest',
\* the count, and the name of the unit, with an s exactly when the count is
\* not 1, also when the count is 1 or is left out.
LatestLabelHasCount ==
  (SplitReturned /\ call.ret # <<>>) =>
    call.ret[1].metric_type =
      str.Latest \o Decimal(CountOf(call.freq)) \o str.space
        \o UnitNameOf(call.freq)
        \o (IF CountOf(call.freq) # 1 THEN str.s ELSE EmptyString)

\* C18, amended: the first table timesplit returns is labelled 'Latest' and
\* the name of the unit when the count is 1 or is left out, and 'Latest',
\* the count and the name of the unit with an s otherwise.
LatestLabel ==
  (SplitReturned /\ call.ret # <<>>) =>
    call.ret[1].metric_type =
      IF CountOf(call.freq) = 1
      THEN str.Latest \o UnitNameOf(call.freq)
      ELSE str.Latest \o Decimal(CountOf(call.freq)) \o str.space
             \o UnitNameOf(call.freq) \o str.s

LatestLabelReached ==
  /\ SplitReturned /\ call.freq = <<49, 65>>
  /\ Len(call.ret) = 2
  /\ call.ret[1].metric_type = str.Latest \o str.year

\* C19: when timesplit returns and use_average is true and there are two
\* or more older kept periods, they come as one table labelled 'Avg of
\* previous N intervals', N their number, that has a row for every
\* timestamp of their moved tables and in it, per column, the mean of the
\* values the moved tables have there; otherwise the older period k periods
\* before the latest comes as its own table labelled with k times the
\* count, the name of the unit, with an s exactly when that number is not
\* 1, and 'ago'.
OlderShifted == SubSeq(call.shifted, 1, call.kept - 1)

RECURSIVE SumAt(_, _, _)
SumAt(tables, c, t) ==
  IF tables = {} THEN 0
  ELSE LET j == CHOOSE j \in tables : TRUE
       IN  OlderShifted[j].columns[c].cells[t] + SumAt(tables \ {j}, c, t)

\* The moved older tables that have a value in column c at timestamp t.
Having(c, t) ==
  {j \in DOMAIN OlderShifted : t \in DOMAIN OlderShifted[j].columns[c].cells}

IsAverageOfOlder(average) ==
  LET rows == UNION {Range(OlderShifted[j].index) : j \in DOMAIN OlderShifted}
  IN  /\ Range(average.index) = rows
      /\ Len(average.index) = Cardinality(rows)
      /\ \A i \in 1..(Len(average.index) - 1) : average.index[i] < average.index[i + 1]
      /\ Len(average.columns) = Len(InputTable.columns)
      /\ \A c \in DOMAIN average.columns :
           /\ average.columns[c].key = InputTable.columns[c].key
           /\ DOMAIN average.columns[c].cells = {t \in rows : Having(c, t) # {}}
           /\ \A t \in DOMAIN average.columns[c].cells :
                /\ average.columns[c].cells[t].count = Cardinality(Having(c, t))
                /\ average.columns[c].cells[t].sum = SumAt(Having(c, t), c, t)

AgoLabel(k) ==
  Decimal(k * CountOf(call.freq)) \o str.space \o UnitNameOf(call.freq)
    \o (IF k * CountOf(call.freq) # 1 THEN str.s ELSE EmptyString) \o str.ago

OlderPartitions ==
  (SplitReturned /\ call.ret # <<>>) =>
    IF call.use_average /\ call.kept - 1 >= 2
    THEN /\ Len(call.ret) = 2
         /\ call.ret[2].metric_type =
              str.Avg \o Decimal(call.kept - 1) \o str.intervals
         /\ IsAverageOfOlder(call.ret[2]._dataframe)
    ELSE /\ Len(call.ret) = call.kept
         /\ \A k \in 1..(call.kept - 1) :
              /\ call.ret[k + 1].metric_type = AgoLabel(k)
              /\ call.ret[k + 1]._dataframe = call.shifted[call.kept - k]
              /\ IsMoved(call.ret[k + 1]._dataframe, KeptBefore(k).df)

OlderPartitionsReached ==
  /\ SplitReturned /\ call.use_average /\ call.freq = str.M /\ call.min_points = 1
  /\ call.kept = 3 /\ Len(call.ret) = 2
  /\ \E t \in DOMAIN call.ret[2]._dataframe.columns[1].cells :
       call.ret[2]._dataframe.columns[1].cells[t].count = 2

\* C20: with a day frequency the first period of timesplit starts at the
\* midnight before the first row, so that all the rows of that day are in
\* that period; for a table whose rows are on 2016-03-02 from 14:00 on,
\* freq 'D' and min_points 2, the latest table returned is of the period
\* that starts at 2016-03-02 00:00.
DayFrequency(freq) == WellFormed(freq) /\ freq[Len(freq)] \in {68, 100}

Midnight(t) == t - (t % 1440)

DayPeriodStartsAtMidnight ==
  (IsTimesplit /\ DayFrequency(call.freq) /\ ~InputEmpty) =>
    /\ call.periods # <<>>
    /\ call.periods[1].start_time = Midnight(InputTable.index[1])
    /\ \A t \in InputRows :
         Midnight(t) = Midnight(InputTable.index[1])
           => t \in Range(call.periods[1].df.index)
    /\ (/\ call.freq = str.D /\ call.min_points = 2
        /\ InputTable.index[1] = Timestamp(2016, 3, 2, 14, 0)
        /\ Len(InputTable.index) >= 2)
         => /\ call.raised = "none" /\ call.ret # <<>>
            /\ call.periods[call.kept].start_time = Timestamp(2016, 3, 2, 0, 0)
            /\ call.ret[1]._dataframe = call.periods[call.kept].df

DayPeriodStartsAtMidnightReached ==
  /\ SplitReturned /\ call.freq = str.D /\ call.min_points = 2
  /\ InputTable.index = <<Timestamp(2016, 3, 2, 14, 0), Timestamp(2016, 3, 2, 15, 20)>>
  /\ Len(call.ret) = 1
  /\ call.periods[1].start_time = Timestamp(2016, 3, 2, 0, 0)

\* C13: after extract_levels, extract_single_level, timesplit, a binary or
\* a unary operation, or after the caller has changed the table it read
\* from the property dataframe, the table the call was given, which is the
\* table the QueryResults object stores, has the rows, the column keys in
\* their order and the values it had before the call, and the object its
\* label, whether the call returned or raised.
InputTableUnchanged ==
  call.fn # "none" =>
    /\ qr._dataframe = call.arg[1]
    /\ qr.metric_type = str_m

InputTableUnchangedReached ==
  /\ call.fn = "extract_single_level" /\ call.raised = "none"
  /\ ~call.label.given /\ call.labels.given
  /\ call.labels.val = <<metric_type, zone>>
  /\ Len(call.arg[1].columns) = 2 /\ Len(call.arg[1].index) = 2
  /\ call.ret[1].names = <<None>>
  /\ qr._dataframe.names = <<metric_type, zone>>

\* The unit letter of a well-formed freq, in upper case.
UnitOf(freq) == Upper(freq)[Len(freq)]

\* C23: the first period of timesplit starts at the first row's timestamp
\* with its minutes set to 0 when the unit is H, with or without a count,
\* and at hour 0 of a day when the unit is another one.
HourKeptForHourUnit ==
  (IsTimesplit /\ WellFormed(call.freq) /\ ~InputEmpty) =>
    /\ call.periods # <<>>
    /\ IF UnitOf(call.freq) = 72
       THEN call.periods[1].start_time = ReplaceMinute(InputTable.index[1])
       ELSE call.periods[1].start_time % 1440 = 0

\* C24: when timesplit returns without averaging, the table of an older
\* period is the rows of that period moved by the time from the start of
\* that period to the start of the latest kept period.
ShiftedByPeriodStarts ==
  (SplitReturned /\ call.ret # <<>> /\ ~call.use_average) =>
    \A k \in 1..(Len(call.ret) - 1) :
      call.ret[k + 1]._dataframe.index =
        [i \in DOMAIN KeptBefore(k).df.index |->
           KeptBefore(k).df.index[i]
             + (call.periods[call.kept].start_time - KeptBefore(k).start_time)]

\* C25: when the last period of timesplit has fewer than min_points rows
\* it is not kept, and the one before it is the latest of those kept, the
\* first table of a list that is returned; when no period is kept the call
\* returns the empty list and raises nothing; a last period with
\* min_points rows or more is kept.
LastPeriodRows == Len(call.periods[Len(call.periods)].df.index)

ShortLastPeriodDropped ==
  (IsTimesplit /\ WellFormed(call.freq) /\ ~InputEmpty) =>
    /\ call.kept = IF LastPeriodRows < call.min_points
                   THEN Len(call.periods) - 1 ELSE Len(call.periods)
    /\ call.kept = 0 => (call.raised = "none" /\ call.ret = <<>>)
    /\ (call.kept > 0 /\ call.raised = "none") =>
         /\ call.ret # <<>>
         /\ call.ret[1]._dataframe = call.periods[call.kept].df

ShortLastPeriodDroppedReached ==
  /\ SplitReturned /\ call.freq = str.D /\ call.min_points = 2
  /\ InputTable.index = <<Timestamp(2016, 3, 1, 10, 0), Timestamp(2016, 3, 2, 14, 0)>>
  /\ Len(call.periods) = 2 /\ call.kept = 1 /\ Len(call.ret) = 1
  /\ call.ret[1]._dataframe.index = <<Timestamp(2016, 3, 1, 10, 0)>>

\* C26: for the units M, Q and A, with a count or without, every period
\* of timesplit starts at 00:00 of the first day of a month, of a quarter
\* and of a year.
CalendarAligned ==
  (IsTimesplit /\ WellFormed(call.freq) /\ ~InputEmpty
     /\ UnitOf(call.freq) \in {77, 81, 65}) =>
    \A j \in DOMAIN call.periods :
      LET f == Fields(call.periods[j].start_time)
      IN  /\ f.day = 1 /\ f.hour = 0 /\ f.minute = 0
          /\ UnitOf(call.freq) = 81 => f.month \in {1, 4, 7, 10}
          /\ UnitOf(call.freq) = 65 => f.month = 1

\* C28: the first table of a non-empty list that timesplit returns has
\* min_points rows or more, for min_points of 1 or more.
LatestHasMinPoints ==
  (SplitReturned /\ call.ret # <<>> /\ call.min_points >= 1) =>
    Len(call.ret[1]._dataframe.index) >= call.min_points

\* C29: timesplit on a table with a row and a column and with a
\* well-formed freq raises nothing, also when a period has no row.
SplitNeverRaises ==
  (IsTimesplit /\ WellFormed(call.freq) /\ ~InputEmpty) => call.raised = "none"

\* C27: every iteration of the splitting loop moves the start of the next
\* period forward, past the start of the period it has just cut, so that
\* the loop ends; also for a frequency with the count 0.
PeriodStartAdvances ==
  (call.fn = "timesplit" /\ "split_dataframes" \in DOMAIN call
     /\ call.split_dataframes # <<>>) =>
    call.start_time < call.new_start_time

IsBinary == call.fn = "_binary_operation"

\* The text of an operand in a label: the metric type of a QueryResults,
\* the digits of a number.
OperandText(other) ==
  IF other.type = "QueryResults" THEN other.val.metric_type
  ELSE IF other.val = 2 THEN <<50>> ELSE <<45, 49>>

\* '(<left> <symbol> <right>)'
Labelled(left, operation, right) ==
  <<40>> \o left \o <<32>>
    \o (IF operation = "add" THEN <<43>> ELSE IF operation = "sub" THEN <<45>> ELSE <<42>>)
    \o <<32>> \o right \o <<41>>

\* C21: a binary operation of a QueryResults with another QueryResults
\* whose level names differ, or whose rows or columns have none in common
\* with its own, raises ValueError; with an operand that is neither a
\* number nor a QueryResults it raises TypeError; in both cases nothing is
\* returned. Every other call returns a QueryResults whose metric type is
\* '(<left> <symbol> <right>)', the operands swapped when the operation is
\* the reflected one.
ArithmeticOutcome ==
  IsBinary =>
    LET self == call.arg[1]
        other == call.other
    IN  IF other.type = "QueryResults"
           /\ \/ self.names # other.val._dataframe.names
              \/ \A t \in Range(self.index) : t \notin Range(other.val._dataframe.index)
              \/ \A i \in DOMAIN self.columns :
                    \A j \in DOMAIN other.val._dataframe.columns :
                      self.columns[i].key # other.val._dataframe.columns[j].key
        THEN call.raised = "ValueError" /\ call.ret = <<>>
        ELSE IF other.type \notin {"QueryResults", "int", "float", "long"}
        THEN call.raised = "TypeError" /\ call.ret = <<>>
        ELSE /\ call.raised = "none"
             /\ Len(call.ret) = 1
             /\ call.ret[1].metric_type =
                  IF call.reverse_order
                  THEN Labelled(OperandText(other), call.operation, qr.metric_type)
                  ELSE Labelled(qr.metric_type, call.operation, OperandText(other))

\* 2 - qr on a table with rows: the label is '(2 - m)'.
ArithmeticOutcomeReached ==
  /\ IsBinary /\ call.other.type = "int" /\ call.other.val = 2
  /\ call.operation = "sub" /\ call.reverse_order
  /\ call.arg[1].index # <<>>
  /\ call.raised = "none"
  /\ call.ret[1].metric_type = <<40, 50, 32, 45, 32, 109, 41>>

\* qr + other for a QueryResults of the same levels and columns whose rows
\* are of another year: ValueError.
ArithmeticDisjointRowsReached ==
  /\ IsBinary /\ call.other.type = "QueryResults"
  /\ call.arg[1].index # <<>> /\ call.arg[1].columns # <<>>
  /\ call.arg[1].names = call.other.val._dataframe.names
  /\ call.other.val._dataframe.index = <<Timestamp(2015, 11, 20, 6, 0)>>
  /\ call.raised = "ValueError"

IsTopSorted == call.fn = "_top_sorted"

\* C22: top(count=n) and bottom(count=n) return min(n, number of columns)
\* columns for every n >= 0, those with the largest or the smallest mean;
\* a percentage takes the place of count as ceil(percentage/100 * number of
\* columns), and one outside (0, 100] raises ValueError.
TopCountColumns ==
  IsTopSorted =>
    LET df == call.arg[1]
        n == IF call.percentage.given
             THEN (call.percentage.val * Len(df.columns) + 99) \div 100
             ELSE call.count
    IN  IF call.percentage.given
           /\ (call.percentage.val <= 0 \/ call.percentage.val > 100)
        THEN call.raised = "ValueError"
        ELSE /\ call.raised = "none"
             /\ Len(call.ret[1]._dataframe.columns)
                  = IF n < Len(df.columns) THEN n ELSE Len(df.columns)

IsGetTimestamps == call.fn = "_get_timestamps"

\* The first instant of the week (from Sunday), month, quarter or year
\* that now is in.
PeriodBegin(unit, now) ==
  LET f == Fields(now)
  IN  IF unit = "week"
      THEN (now - (now % 1440)) - ((Weekday(now) + 1) % 7) * 1440
      ELSE IF unit = "month" THEN Timestamp(f.year, f.month, 1, 0, 0)
      ELSE IF unit = "quarter"
      THEN Timestamp(f.year, 3 * ((f.month - 1) \div 3) + 1, 1, 0, 0)
      ELSE Timestamp(f.year, 1, 1, 0, 0)

\* C30: for a name of TimeInterval, _get_timestamps returns a start that is
\* not after the end, and for WEEK_TO_DATE, MONTH_TO_DATE, QUARTER_TO_DATE
\* and YEAR_TO_DATE the start is the first instant of the week, month,
\* quarter or year that now is in, also on its first day; any other name
\* raises ValueError.
ToDateStartsCurrentPeriod ==
  IsGetTimestamps =>
    LET name == Upper(call.interval)
    IN  IF name \notin Range(TimeInterval) THEN call.raised = "ValueError"
        ELSE /\ call.raised = "none"
             /\ call.ret[1] <= call.ret[2]
             /\ name = TimeInterval.WEEK_TO_DATE =>
                  call.ret[1] = PeriodBegin("week", call.now)
             /\ name = TimeInterval.MONTH_TO_DATE =>
                  call.ret[1] = PeriodBegin("month", call.now)
             /\ name = TimeInterval.QUARTER_TO_DATE =>
                  call.ret[1] = PeriodBegin("quarter", call.now)
             /\ name = TimeInterval.YEAR_TO_DATE =>
                  call.ret[1] = PeriodBegin("year", call.now)
====
